---- MODULE Spec2Model ----
(***************************************************************************)
(* Model of the bcycle automation scripts.                                 *)
(*                                                                         *)
(* Spec        the reminder script (scripts/send-mtek-reminders.js)        *)
(*             invoked sequentially, any number of times, while the wall   *)
(*             clock advances: the hour-bucket catch-up tracker around the *)
(*             persisted watermark file.                                   *)
(* SpecFetch   one call of fetchJsonWithRateLimit against an arbitrary     *)
(*             server.                                                     *)
(* SpecPages   one call of an offset-paginated Airtable fetcher.           *)
(* SpecTz      one call of torontoWallClockToUtcIso.                       *)
(* SpecImport  the rating import (scripts/import-instructor-ratings.js)    *)
(*             run sequentially against one form record.                   *)
(* SpecMail    the Graph variant of the reminder script sending mails   *)
(*             through sendMailGraph and logging them.                     *)
(* SpecCursor  one call of getAllReservationsForClassSession.              *)
(* SpecBatch   one call of updateAirtableCounts or of deleteRecords.       *)
(* SpecRace    two invocations of the reminder script that overlap.        *)
(* SpecLoad    loadState on any contents of the state file.                *)
(* SpecAnyFile the reminder script started on any state file that          *)
(*             loadState accepts.                                          *)
(* SpecClass   one run of process-mtek-class.                              *)
(* SpecPick    one call of pickClosestSessionId.                           *)
(* SpecResolve one run of resolve-class-id.                                *)
(***************************************************************************)
EXTENDS Integers, Sequences, FiniteSets

(***************************************************************************)
(* Bounds of the model.                                                    *)
(***************************************************************************)
\* the wall clock runs over the hours 0..MaxNow since midnight UTC of day 0
MaxNow == 27
\* no new invocation starts once a reservation was posted MaxSends times
MaxSends == 2
\* numeric Retry-After hints are drawn from -1..MaxHintSecs (seconds)
MaxHintSecs == 1
\* date-like Retry-After hints are the instants 0..MaxHintDate (seconds)
MaxHintDate == 2
\* an Airtable view is served in 1..MaxPages pages
MaxPages == 3
\* a page carries 0..MaxPageSize records
MaxPageSize == 2
\* the maxRecords argument is drawn from 0..MaxCap
MaxCap == 4
\* the rating CSV has 0..MaxRows data rows
MaxRows == 2
\* the rating import is run at most MaxRuns times
MaxRuns == 2
\* a bucket of the Graph reminder holds MaxMails reservations
MaxMails == 2
\* a batched write gets 0..MaxBatchInput records
MaxBatchInput == 12
\* two overlapping invocations start at an hour of 1..MaxRaceNow of day 0
MaxRaceNow == 2
\* a class session has 0..MaxReservations reservations
MaxReservations == 3
\* pickClosestSessionId gets 0..MaxSessions sessions that start at 0..MaxTime
MaxSessions == 3
MaxTime == 2
\* a run of resolve-class-id reads 0..MaxRecords records
MaxRecords == 2

(***************************************************************************)
(* Program constants.                                                      *)
(***************************************************************************)
\* getUTCHours() yields 0..23; processHourWindow wraps the next hour at 24
HoursPerDay == 24
\* default value of the maxRetries parameter
maxRetries == 5
\* fallback delay in ms when the hint gives no positive delay
FallbackDelayMs == 2000
\* the only status fetchJsonWithRateLimit retries
TooManyRequests == 429

\* parsed.targetDate || '' : the empty string stands for "no date"
NoDate == 0
\* let offset; an undefined offset, the request of the first page
NoOffset == 0
\* maxRecords null: no cap (null and 0 are both falsy in `maxRecords && ...`)
NoCap == 0
\* no wall-clock value parsed or computed yet
NoWall == [day |-> -1, hour |-> 0, minute |-> 0]
\* form?.fields?.Studio?.[0] undefined
NoStudio == ""
\* let logId = null
NoLog == 0
\* no error thrown or reported
NoError == ""
\* the process has not exited
NoExit == -1

VARIABLES
    now,            \* wall clock: whole hours since midnight UTC of day 0
    stateFile,      \* the watermark file: [exists, targetDate, lastProcessedHour]
    pc,             \* position of the current invocation of main
    state,          \* main's in-memory watermark
    loaded,         \* what loadState returned to this invocation
    targetDate,     \* main's targetDate
    currentHour,    \* main's currentHour
    startHour,      \* main's startHour
    hour,           \* main's loop variable
    pending,        \* processHourWindow: reservations of the window not yet handled
    sent,           \* per reservation: number of POSTs made to the webhook
    processed,      \* observed buckets for which processHourWindow was entered
    activeDates,    \* target dates for which an invocation has completed
    runHours,       \* hours handed to processHourWindow by this invocation
    runFetches,     \* HTTP calls made by this invocation
    runWrites,      \* writes of the state file made by this invocation
    fileAtStart,    \* the state file as this invocation found it
    abortCause,     \* why this invocation aborted
    lastDone,       \* [valid, targetDate, hour] of the last completed invocation
    lastAbort,      \* [valid, startHour] of the previous invocation when it died on a fetch
    fpc,            \* fetchJsonWithRateLimit: position
    attempt,        \* fetchJsonWithRateLimit: loop variable
    requests,       \* fetchJsonWithRateLimit: number of fetch() calls made
    served,         \* the responses the server gave, in order
    sleeps,         \* the delays slept, in order (ms)
    fnow,           \* Date.now() in ms
    outcome,        \* what fetchJsonWithRateLimit returned or threw
    pgFn,           \* paginated fetch: which fetcher runs
    pgCap,          \* paginated fetch: the maxRecords argument
    pgSource,       \* the Airtable view: the sizes of its pages, in order
    pgPc,           \* paginated fetch: position
    pgOffset,       \* paginated fetch: the offset variable
    pgRecords,      \* paginated fetch: the records accumulated
    pgRequested,    \* the offsets of the requests made, in order
    pgResult,       \* what the fetcher returned
    tzWall,         \* wall-clock conversion: the parsed input [day, hour, minute]
    tzPc,           \* wall-clock conversion: position
    tzUtc,          \* what torontoWallClockToUtcIso returned
    tzBack,         \* the returned instant rendered in the configured zone
    formStudio,     \* the form record: its Studio link
    formCsv,        \* the form record: the data rows of its CSV attachment
    impPc,          \* rating import: position of the current run of main
    impRuns,        \* rating import: number of runs started
    impStudio,      \* rating import: the studio of the form record
    impCsv,         \* rating import: the data rows of the CSV
    impI,           \* rating import: main's loop variable over the data rows
    imported,       \* rating import: main's imported counter
    feedbacks,      \* the feedback table: the records created, in order
    logId,          \* rating import: main's logId
    logUpdates,     \* the updateLog calls of this run: [fields, ok]
    issues,         \* rating import: number of entries of main's issues list
    impThrown,      \* the message of the error that reached main's catch
    impFatal,       \* the message main's catch reported
    impExit,        \* exit code of the run
    impDone,        \* the <<csv, studio>> pairs of the runs that went through all rows
    mailPc,         \* Graph reminder: position in the handling of one reservation
    mailR,          \* Graph reminder: index of the reservation being handled
    mailAttempt,    \* sendMailGraph: loop variable
    mailServed,     \* sendMailGraph: the retryable answers Graph gave to this call, in order
    mailSleeps,     \* sendMailGraph: the delays slept by this call, in order (ms)
    mailSent,       \* the reservations whose mail Graph accepted
    mailLogs,       \* the email-log table: the reservations logged, in order
    curSource,      \* the reservations endpoint: its pages [size, next], in order
    curPc,          \* getAllReservationsForClassSession: position
    curNext,        \* getAllReservationsForClassSession: the page nextPath asks for
    curPage,        \* getAllReservationsForClassSession: the page counter
    curAll,         \* getAllReservationsForClassSession: the array all
    curRequested,   \* the pages requested, in order
    curLast,        \* the last response: [size, next]
    curResult,      \* what getAllReservationsForClassSession returned
    batFn,          \* batched write: which function runs
    batInput,       \* batched write: per input record, whether it carries a Class ID
    batI,           \* batched write: the loop variable i over the input
    batRequests,    \* the PATCH/DELETE requests made: the input positions each carries
    batPc,          \* batched write: position
    rcNow,          \* overlapping invocations: the wall clock, in hours since day 0 00:00Z
    rcFile,         \* overlapping invocations: the state file they share
    rcRunner,       \* overlapping invocations: per invocation, its position and main's locals
    rcSentBy,       \* per reservation, the invocations that posted it to the webhook
    ldRaw,          \* loadState on any file: what the state file holds
    ldVersion,      \* loadState on any file: which version of the script runs
    ldPc,           \* loadState on any file: position
    ldResult,       \* what loadState returned
    clsVersion,     \* which copy of process-mtek-class runs
    clsN,           \* reservations of the class session
    clsPc,          \* position of main
    clsI,           \* reservations the loop has taken
    clsUpserted,    \* reservations written to Class Reservations
    clsPayload,     \* makePayload: reservations for the Make webhook
    clsFailed,      \* reservations one of whose external calls failed
    clsExit,        \* exit code of the process
    pkSessions,     \* the sessions MTEK returned for the window
    pkTarget,       \* targetUtcIso
    pkPc,           \* position of the caller of pickClosestSessionId
    pkResult,       \* what pickClosestSessionId returned
    rsRecords,      \* the records read from Airtable: Room/Date present, Class ID
    rsTable,        \* the Class ID each record has in Airtable now
    rsI,            \* records the loop has taken
    rsPc,           \* position of main of resolve-class-id
    rsPatched,      \* records that were PATCHed
    rsCount         \* the counters updated, skipped, notFound, errors

runVars == <<now, stateFile, pc, state, loaded, targetDate, currentHour, startHour,
             hour, pending, sent, processed, activeDates, runHours, runFetches,
             runWrites, fileAtStart, abortCause, lastDone, lastAbort>>
fetchVars == <<fpc, attempt, requests, served, sleeps, fnow, outcome>>
pageVars == <<pgFn, pgCap, pgSource, pgPc, pgOffset, pgRecords, pgRequested, pgResult>>
tzVars == <<tzWall, tzPc, tzUtc, tzBack>>
impVars == <<formStudio, formCsv, impPc, impRuns, impStudio, impCsv, impI, imported, feedbacks, logId,
             logUpdates, issues, impThrown, impFatal, impExit, impDone>>
mailVars == <<mailPc, mailR, mailAttempt, mailServed, mailSleeps, mailSent, mailLogs>>
curVars == <<curSource, curPc, curNext, curPage, curAll, curRequested, curLast, curResult>>
batVars == <<batFn, batInput, batI, batRequests, batPc>>
raceVars == <<rcNow, rcFile, rcRunner, rcSentBy>>
loadVars == <<ldRaw, ldVersion, ldPc, ldResult>>
clsVars == <<clsVersion, clsN, clsPc, clsI, clsUpserted, clsPayload, clsFailed, clsExit>>
pickVars == <<pkSessions, pkTarget, pkPc, pkResult>>
resVars == <<rsRecords, rsTable, rsI, rsPc, rsPatched, rsCount>>
vars == <<runVars, fetchVars, pageVars, tzVars, impVars, mailVars, curVars, batVars, raceVars, loadVars, clsVars, pickVars, resVars>>

\* what the steps of one script leave alone: the state of the others
nonRunVars == <<fetchVars, pageVars, tzVars, impVars, mailVars, curVars, batVars, raceVars, loadVars, clsVars, pickVars, resVars>>
nonFetchVars == <<runVars, pageVars, tzVars, impVars, mailVars, curVars, batVars, raceVars, loadVars, clsVars, pickVars, resVars>>
nonPageVars == <<runVars, fetchVars, tzVars, impVars, mailVars, curVars, batVars, raceVars, loadVars, clsVars, pickVars, resVars>>
nonTzVars == <<runVars, fetchVars, pageVars, impVars, mailVars, curVars, batVars, raceVars, loadVars, clsVars, pickVars, resVars>>
nonImpVars == <<runVars, fetchVars, pageVars, tzVars, mailVars, curVars, batVars, raceVars, loadVars, clsVars, pickVars, resVars>>
nonMailVars == <<runVars, fetchVars, pageVars, tzVars, impVars, curVars, batVars, raceVars, loadVars, clsVars, pickVars, resVars>>
nonCurVars == <<runVars, fetchVars, pageVars, tzVars, impVars, mailVars, batVars, raceVars, loadVars, clsVars, pickVars, resVars>>
nonBatVars == <<runVars, fetchVars, pageVars, tzVars, impVars, mailVars, curVars, raceVars, loadVars, clsVars, pickVars, resVars>>
nonRaceVars == <<runVars, fetchVars, pageVars, tzVars, impVars, mailVars, curVars, batVars, loadVars, clsVars, pickVars, resVars>>
nonLoadVars == <<runVars, fetchVars, pageVars, tzVars, impVars, mailVars, curVars, batVars, raceVars, clsVars, pickVars, resVars>>
nonClsVars == <<runVars, fetchVars, pageVars, tzVars, impVars, mailVars, curVars, batVars, raceVars, loadVars, pickVars, resVars>>
nonPickVars == <<runVars, fetchVars, pageVars, tzVars, impVars, mailVars, curVars, batVars, raceVars, loadVars, clsVars, resVars>>
nonResVars == <<runVars, fetchVars, pageVars, tzVars, impVars, mailVars, curVars, batVars, raceVars, loadVars, clsVars, pickVars>>

(***************************************************************************)
(* The scheduling platform's data: pending standard reservations.          *)
(***************************************************************************)
Reservations == {1, 2, 3, 4}

\* start of the reservation's class session, in hours since day 0 00:00Z
SessionHour(r) ==
    CASE r = 1 -> 1 * HoursPerDay + 1       \* date 1, 01:00Z
      [] r = 2 -> 1 * HoursPerDay + 23      \* date 1, 23:00Z
      [] r = 3 -> 2 * HoursPerDay + 0       \* date 2, 00:00Z
      [] r = 4 -> 1 * HoursPerDay + 1       \* date 1, 01:00Z

\* reservation.relationships.class_session.data.id is present
HasClassSession(r) == r # 4
\* reservation.relationships.user.data.id is present (otherwise a guest)
HasUser(r) == r # 3

\* the buckets (targetDate, hour) whose processing is observed
Bucket(r) == <<SessionHour(r) \div HoursPerDay, SessionHour(r) % HoursPerDay>>
ObservedBuckets == {Bucket(r) : r \in Reservations}

(***************************************************************************)
(* Helpers of the script.                                                  *)
(***************************************************************************)
getUtcTomorrowAndCurrentHour(t) ==
    [targetDate |-> (t \div HoursPerDay) + 1, currentHour |-> t % HoursPerDay]

AbsentFile == [exists |-> FALSE, targetDate |-> NoDate, lastProcessedHour |-> -1]

\* a load that starts fresh whatever the file holds
loadState_Fresh(file) == [targetDate |-> NoDate, lastProcessedHour |-> -1]

\* loadState on a file that is absent or was written by saveState
loadState(file) ==
    IF file.exists
    THEN [targetDate |-> file.targetDate, lastProcessedHour |-> file.lastProcessedHour]
    ELSE [targetDate |-> NoDate, lastProcessedHour |-> -1]

saveState(s) ==
    [exists |-> TRUE, targetDate |-> s.targetDate, lastProcessedHour |-> s.lastProcessedHour]

\* a date check that takes over the new date and keeps the old hour
ResetIfDateChanged_KeepHour(s, td) ==
    IF s.targetDate # td
    THEN [targetDate |-> td, lastProcessedHour |-> s.lastProcessedHour]
    ELSE s

\* main: the watermark after the target-date check
ResetIfDateChanged(s, td) ==
    IF s.targetDate # td
    THEN [targetDate |-> td, lastProcessedHour |-> -1]
    ELSE s

\* a start hour that begins at the watermark itself
StartHour_OffByOne(s) == s.lastProcessedHour

\* main: const startHour = state.lastProcessedHour + 1
StartHour(s) == s.lastProcessedHour + 1

\* an early return that lets the hour just handled through
NothingToProcess_Late(sh, ch) == sh > ch + 1

\* main: the early return, if (startHour > currentHour)
NothingToProcess(sh, ch) == sh > ch

\* a watermark that records how many hours the run handled
Advance_Count(s, ch) == [s EXCEPT !.lastProcessedHour = ch - s.lastProcessedHour]

\* main: the watermark written after the loop
Advance(s, ch) == [s EXCEPT !.lastProcessedHour = ch]

\* processHourWindow: the window asked of the platform, in hours since day 0
WindowStart(td, h) == td * HoursPerDay + h
WindowEnd(td, h) == td * HoursPerDay + ((h + 1) % HoursPerDay)

\* the reservations the platform returns for the window, in id order
InWindow(r, td, h) == WindowStart(td, h) <= SessionHour(r) /\ SessionHour(r) < WindowEnd(td, h)

RECURSIVE SortedSeq(_)
SortedSeq(S) ==
    IF S = {} THEN <<>>
    ELSE LET m == CHOOSE x \in S : \A y \in S : x <= y
         IN <<m>> \o SortedSeq(S \ {m})

WindowReservations(td, h) == SortedSeq({r \in Reservations : InWindow(r, td, h)})

(***************************************************************************)
(* The reminder script, invoked again and again.                           *)
(***************************************************************************)
NoRun == [valid |-> FALSE, targetDate |-> NoDate, hour |-> -1]
NoAbort == [valid |-> FALSE, targetDate |-> NoDate, startHour |-> -1]
NoWatermark == [targetDate |-> NoDate, lastProcessedHour |-> -1]
NoOutcome == [kind |-> "none", status |-> 0, body |-> "none"]

InitRun ==
    /\ now = 0
    /\ stateFile = AbsentFile
    /\ pc = "idle"
    /\ state = NoWatermark
    /\ loaded = NoWatermark
    /\ targetDate = NoDate
    /\ currentHour = -1
    /\ startHour = -1
    /\ hour = -1
    /\ pending = <<>>
    /\ sent = [r \in Reservations |-> 0]
    /\ processed = {}
    /\ activeDates = {}
    /\ runHours = <<>>
    /\ runFetches = 0
    /\ runWrites = 0
    /\ fileAtStart = AbsentFile
    /\ abortCause = "none"
    /\ lastDone = NoRun
    /\ lastAbort = NoAbort

InitFetchIdle ==
    /\ fpc = "idle"
    /\ attempt = 0
    /\ requests = 0
    /\ served = <<>>
    /\ sleeps = <<>>
    /\ fnow = 0
    /\ outcome = NoOutcome

InitPagesIdle ==
    /\ pgFn = "none"
    /\ pgCap = 0
    /\ pgSource = <<>>
    /\ pgPc = "idle"
    /\ pgOffset = 0
    /\ pgRecords = <<>>
    /\ pgRequested = <<>>
    /\ pgResult = <<>>

InitTzIdle ==
    /\ tzWall = NoWall
    /\ tzPc = "idle"
    /\ tzUtc = NoWall
    /\ tzBack = NoWall

InitImportIdle ==
    /\ formStudio = NoStudio
    /\ formCsv = <<>>
    /\ impPc = "idle"
    /\ impRuns = 0
    /\ impStudio = NoStudio
    /\ impCsv = <<>>
    /\ impI = 0
    /\ imported = 0
    /\ feedbacks = <<>>
    /\ logId = NoLog
    /\ logUpdates = <<>>
    /\ issues = 0
    /\ impThrown = NoError
    /\ impFatal = NoError
    /\ impExit = NoExit
    /\ impDone = {}

\* the scripts are separate processes: each specification runs one of them
InitMailIdle ==
    /\ mailPc = "idle"
    /\ mailR = 0
    /\ mailAttempt = 0
    /\ mailServed = <<>>
    /\ mailSleeps = <<>>
    /\ mailSent = {}
    /\ mailLogs = <<>>

InitCursorIdle ==
    /\ curSource = <<>>
    /\ curPc = "idle"
    /\ curNext = 0
    /\ curPage = 0
    /\ curAll = <<>>
    /\ curRequested = <<>>
    /\ curLast = [size |-> 0, next |-> FALSE]
    /\ curResult = <<>>

InitBatchIdle ==
    /\ batFn = "none"
    /\ batInput = <<>>
    /\ batI = 0
    /\ batRequests = <<>>
    /\ batPc = "idle"

InitRaceIdle ==
    /\ rcNow = 0
    /\ rcFile = AbsentFile
    /\ rcRunner = <<>>
    /\ rcSentBy = <<>>

InitLoadIdle ==
    /\ ldRaw = [kind |-> "absent", targetDate |-> [t |-> "missing", v |-> 0], lastProcessedHour |-> [t |-> "missing", v |-> 0]]
    /\ ldVersion = "none"
    /\ ldPc = "idle"
    /\ ldResult = [object |-> FALSE, targetDate |-> [t |-> "missing", v |-> 0], lastProcessedHour |-> [t |-> "missing", v |-> 0]]

InitClassIdle ==
    /\ clsVersion = "by-record"
    /\ clsN = 0
    /\ clsPc = "start"
    /\ clsI = 0
    /\ clsUpserted = {}
    /\ clsPayload = <<>>
    /\ clsFailed = {}
    /\ clsExit = NoExit

InitPickIdle ==
    /\ pkSessions = <<>>
    /\ pkTarget = 0
    /\ pkPc = "idle"
    /\ pkResult = 0

InitResolveIdle ==
    /\ rsRecords = <<>>
    /\ rsTable = <<>>
    /\ rsI = 0
    /\ rsPc = "idle"
    /\ rsPatched = {}
    /\ rsCount = [updated |-> 0, skipped |-> 0, notFound |-> 0, errors |-> 0]

\* every script but the one named g is at rest
IdleExcept(g) ==
    /\ IF g = "run" THEN TRUE ELSE InitRun
    /\ IF g = "fetch" THEN TRUE ELSE InitFetchIdle
    /\ IF g = "page" THEN TRUE ELSE InitPagesIdle
    /\ IF g = "tz" THEN TRUE ELSE InitTzIdle
    /\ IF g = "imp" THEN TRUE ELSE InitImportIdle
    /\ IF g = "mail" THEN TRUE ELSE InitMailIdle
    /\ IF g = "cur" THEN TRUE ELSE InitCursorIdle
    /\ IF g = "bat" THEN TRUE ELSE InitBatchIdle
    /\ IF g = "race" THEN TRUE ELSE InitRaceIdle
    /\ IF g = "load" THEN TRUE ELSE InitLoadIdle
    /\ IF g = "cls" THEN TRUE ELSE InitClassIdle
    /\ IF g = "pick" THEN TRUE ELSE InitPickIdle
    /\ IF g = "res" THEN TRUE ELSE InitResolveIdle

AllIdle == IdleExcept("none")

Init == AllIdle

\* the wall clock advances between invocations (main reads it once, on entry)
Tick ==
    /\ pc = "idle"
    /\ now < MaxNow
    /\ now' = now + 1
    /\ UNCHANGED <<stateFile, pc, state, loaded, targetDate, currentHour, startHour,
                   hour, pending, sent, processed, activeDates, runHours, runFetches,
                   runWrites, fileAtStart, abortCause, lastDone, lastAbort>>
    /\ UNCHANGED nonRunVars

\* main, up to the first network call: loadState, the clock, the date check,
\* the start hour and the early return
mainStart ==
    /\ pc = "idle"
    /\ \A r \in Reservations : sent[r] < MaxSends
    /\ LET s0 == loadState(stateFile)
           t  == getUtcTomorrowAndCurrentHour(now)
           s1 == ResetIfDateChanged(s0, t.targetDate)
           sh == StartHour(s1)
       IN /\ loaded' = s0
          /\ state' = s1
          /\ targetDate' = t.targetDate
          /\ currentHour' = t.currentHour
          /\ startHour' = sh
          /\ pc' = IF NothingToProcess(sh, t.currentHour) THEN "done" ELSE "studios"
    /\ fileAtStart' = stateFile
    /\ runHours' = <<>>
    /\ runFetches' = 0
    /\ runWrites' = 0
    /\ abortCause' = "none"
    /\ UNCHANGED <<now, stateFile, hour, pending, sent, processed, activeDates,
                   lastDone, lastAbort>>
    /\ UNCHANGED nonRunVars

\* main: await loadStudiosMap(); a failed page request rejects main
mainLoadStudios ==
    /\ pc = "studios"
    /\ runFetches' = runFetches + 1
    /\ \E ok \in BOOLEAN :
         IF ok
         THEN /\ pc' = "window"
              /\ hour' = startHour
              /\ UNCHANGED abortCause
         ELSE /\ pc' = "aborted"
              /\ abortCause' = "studios"
              /\ UNCHANGED hour
    /\ UNCHANGED <<now, stateFile, state, loaded, targetDate, currentHour, startHour,
                   pending, sent, processed, activeDates, runHours, runWrites,
                   fileAtStart, lastDone, lastAbort>>
    /\ UNCHANGED nonRunVars

\* processHourWindow, up to the reservation loop: the reservations request
processHourWindow ==
    /\ pc = "window"
    /\ hour <= currentHour
    /\ runHours' = Append(runHours, hour)
    /\ processed' = processed \cup ({<<targetDate, hour>>} \cap ObservedBuckets)
    /\ runFetches' = runFetches + 1
    /\ \E ok \in BOOLEAN :
         IF ok
         THEN LET rs == WindowReservations(targetDate, hour)
              IN /\ pending' = rs
                 /\ IF rs = <<>>
                    THEN pc' = "window" /\ hour' = hour + 1
                    ELSE pc' = "reservation" /\ UNCHANGED hour
                 /\ UNCHANGED abortCause
         ELSE /\ pc' = "aborted"
              /\ abortCause' = "reservations"
              /\ UNCHANGED <<pending, hour>>
    /\ UNCHANGED <<now, stateFile, state, loaded, targetDate, currentHour, startHour,
                   sent, activeDates, runWrites, fileAtStart, lastDone, lastAbort>>
    /\ UNCHANGED nonRunVars

\* what one iteration of the reservation loop can come to
\*   skipped    no class_session relationship: continue, no request
\*   caught     the class-session or user fetch threw inside the try
\*   unhandled  the class-session promise rejected while the user fetch was
\*              awaited: no handler is attached yet, the process dies
\*   posted     the webhook answered (ok or not)
\*   postThrew  fetch() of the webhook threw, the request went nowhere
IterationOutcomes(r) ==
    IF ~HasClassSession(r) THEN {"skipped"}
    ELSE {"caught", "posted", "postThrew"} \cup (IF HasUser(r) THEN {"unhandled"} ELSE {})

LookupFetches(r) == IF HasUser(r) THEN 2 ELSE 1

\* processHourWindow: one iteration of the reservation loop
processReservation ==
    /\ pc = "reservation"
    /\ pending # <<>>
    /\ LET r == Head(pending)
       IN \E o \in IterationOutcomes(r) :
            /\ sent' = IF o = "posted" THEN [sent EXCEPT ![r] = @ + 1] ELSE sent
            /\ runFetches' = runFetches +
                 (CASE o = "skipped" -> 0
                    [] o \in {"caught", "unhandled"} -> LookupFetches(r)
                    [] o \in {"posted", "postThrew"} -> LookupFetches(r) + 1)
            /\ IF o = "unhandled"
               THEN /\ pc' = "aborted"
                    /\ abortCause' = "unhandled"
                    /\ UNCHANGED <<pending, hour>>
               ELSE /\ pending' = Tail(pending)
                    /\ IF Tail(pending) = <<>>
                       THEN pc' = "window" /\ hour' = hour + 1
                       ELSE pc' = "reservation" /\ UNCHANGED hour
                    /\ UNCHANGED abortCause
    /\ UNCHANGED <<now, stateFile, state, loaded, targetDate, currentHour, startHour,
                   processed, activeDates, runHours, runWrites, fileAtStart,
                   lastDone, lastAbort>>
    /\ UNCHANGED nonRunVars

\* main, after the loop: advance the watermark and saveState
mainSave ==
    /\ pc = "window"
    /\ hour > currentHour
    /\ state' = Advance(state, currentHour)
    /\ \E ok \in BOOLEAN :
         IF ok
         THEN /\ stateFile' = saveState(state')
              /\ runWrites' = runWrites + 1
              /\ pc' = "done"
              /\ UNCHANGED abortCause
         ELSE /\ pc' = "aborted"
              /\ abortCause' = "save"
              /\ UNCHANGED <<stateFile, runWrites>>
    /\ UNCHANGED <<now, loaded, targetDate, currentHour, startHour, hour, pending,
                   sent, processed, activeDates, runHours, runFetches, fileAtStart,
                   lastDone, lastAbort>>
    /\ UNCHANGED nonRunVars

\* the process ends: exit code 0 after main returned, 1 after it rejected
processExit ==
    /\ pc \in {"done", "aborted"}
    /\ pc' = "idle"
    /\ lastDone' = IF pc = "done"
                   THEN [valid |-> TRUE, targetDate |-> targetDate, hour |-> currentHour]
                   ELSE lastDone
    /\ activeDates' = IF pc = "done" THEN activeDates \cup {targetDate} ELSE activeDates
    /\ lastAbort' = IF pc = "aborted" /\ abortCause \in {"studios", "reservations"}
                    THEN [valid |-> TRUE, targetDate |-> targetDate, startHour |-> startHour]
                    ELSE NoAbort
    /\ state' = NoWatermark
    /\ loaded' = NoWatermark
    /\ targetDate' = NoDate
    /\ currentHour' = -1
    /\ startHour' = -1
    /\ hour' = -1
    /\ pending' = <<>>
    /\ runHours' = <<>>
    /\ runFetches' = 0
    /\ runWrites' = 0
    /\ fileAtStart' = AbsentFile
    /\ abortCause' = "none"
    /\ UNCHANGED <<now, stateFile, sent, processed>>
    /\ UNCHANGED nonRunVars

Next ==
    \/ Tick
    \/ mainStart
    \/ mainLoadStudios
    \/ processHourWindow
    \/ processReservation
    \/ mainSave
    \/ processExit

Spec == Init /\ [][Next]_vars

(***************************************************************************)
(* fetchJsonWithRateLimit(url, options, maxRetries = 5), one call.         *)
(***************************************************************************)
Statuses == {200, 404, TooManyRequests, 500}
Bodies == {"b1", "b2"}

\* the Retry-After header: absent, a number of seconds, an HTTP date (given
\* as its getTime() in ms), or a string that is neither
NoHint == [kind |-> "none", v |-> 0]
Hints ==
    {NoHint, [kind |-> "bad", v |-> 0]}
      \cup {[kind |-> "num", v |-> n] : n \in (-1)..MaxHintSecs}
      \cup {[kind |-> "date", v |-> 1000 * d] : d \in 0..MaxHintDate}

Responses ==
    {[status |-> TooManyRequests, hint |-> h, body |-> "b1"] : h \in Hints}
      \cup {[status |-> st, hint |-> NoHint, body |-> b] :
               st \in Statuses \ {TooManyRequests}, b \in Bodies}

\* res.ok
Ok(status) == status >= 200 /\ status <= 299

\* a loop that allows one attempt more
LoopContinues_OneMore(a) == a <= maxRetries + 1

\* the loop condition, attempt <= maxRetries
LoopContinues(a) == a <= maxRetries

\* a retry rule that also takes server errors
Retried_ServerErrors(status) == status = TooManyRequests \/ status >= 500

\* the statuses that lead to a sleep and another attempt
Retried(status) == status = TooManyRequests

\* a delay that ignores the hint
DelayMs_NoHint(h, t) == FallbackDelayMs

\* the delay slept after a 429 that carried the hint h, at time t (ms)
DelayMs(h, t) ==
    LET hinted ==
          CASE h.kind = "num"  -> h.v * 1000
            [] h.kind = "date" -> h.v - t
            [] OTHER           -> 0
    IN IF hinted = 0 \/ hinted < 0 THEN FallbackDelayMs ELSE hinted

InitFetch == AllIdle

fetchCall ==
    /\ fpc = "idle"
    /\ fpc' = "loop"
    /\ attempt' = 1
    /\ UNCHANGED <<requests, served, sleeps, fnow, outcome>>
    /\ UNCHANGED nonFetchVars

\* one iteration of the for loop: the request, and what follows its response
fetchAttempt ==
    /\ fpc = "loop"
    /\ LoopContinues(attempt)
    /\ \E res \in Responses :
         /\ requests' = requests + 1
         /\ served' = Append(served, [status |-> res.status, hint |-> res.hint,
                                      body |-> res.body, at |-> fnow])
         /\ IF ~Retried(res.status)
            THEN /\ IF ~Ok(res.status)
                    THEN /\ fpc' = "failed"
                         /\ outcome' = [kind |-> "Request failed",
                                        status |-> res.status, body |-> res.body]
                    ELSE /\ fpc' = "returned"
                         /\ outcome' = [kind |-> "json",
                                        status |-> res.status, body |-> res.body]
                 /\ UNCHANGED <<attempt, sleeps, fnow>>
            ELSE LET delayMs == DelayMs(res.hint, fnow)
                 IN /\ sleeps' = Append(sleeps, delayMs)
                    /\ fnow' = fnow + delayMs
                    /\ attempt' = attempt + 1
                    /\ UNCHANGED <<fpc, outcome>>
    /\ UNCHANGED nonFetchVars

\* the loop ran out: throw new Error('Exceeded max retries ...')
fetchExhausted ==
    /\ fpc = "loop"
    /\ ~LoopContinues(attempt)
    /\ fpc' = "exceeded"
    /\ outcome' = [kind |-> "Exceeded max retries", status |-> 0, body |-> "none"]
    /\ UNCHANGED <<attempt, requests, served, sleeps, fnow>>
    /\ UNCHANGED nonFetchVars

NextFetch ==
    \/ fetchCall
    \/ fetchAttempt
    \/ fetchExhausted

SpecFetch == InitFetch /\ [][NextFetch]_vars

\* the runtime keeps running the call and the server keeps answering
SpecFetchFair == SpecFetch /\ WF_vars(NextFetch)

(***************************************************************************)
(* Properties of the reminder script (checked under Spec).                 *)
(***************************************************************************)

\* C1: over any sequence of sequential invocations, completed or aborted,
\* every reservation is posted to the webhook at most once.
C1_AtMostOnce == \A r \in Reservations : sent[r] <= 1

\* the bucket b = <<date, hour>> is due for a run working at (targetDate, currentHour)
Due(b) == b[1] < targetDate \/ (b[1] = targetDate /\ b[2] <= currentHour)

\* C2: when an invocation completes, every hour bucket that has come due on a
\* date the script has completed a run for has been processed: no bucket is
\* skipped for good because runs were missed.
C2_NoBucketSkipped ==
    pc = "done" =>
      \A b \in ObservedBuckets : (b[1] \in activeDates /\ Due(b)) => b \in processed

\* C3: between two consecutive persisted states with the same targetDate the
\* persisted lastProcessedHour does not decrease.
C3_WatermarkMonotone ==
    [][(stateFile.exists /\ stateFile'.exists
          /\ stateFile'.targetDate = stateFile.targetDate)
         => stateFile'.lastProcessedHour >= stateFile.lastProcessedHour]_vars

C3_Witness ==
    /\ pc = "done"
    /\ runWrites = 1
    /\ fileAtStart.exists
    /\ fileAtStart.targetDate = stateFile.targetDate
    /\ fileAtStart.lastProcessedHour = 5
    /\ stateFile.lastProcessedHour = 8

\* C4: a run whose loaded watermark carries another targetDate than the run's
\* own computes its start hour from lastProcessedHour = -1, whatever the old
\* lastProcessedHour was: the start hour is 0 and hour 0 is processed first.
C4_ResetOnDateChange ==
    (pc # "idle" /\ loaded.targetDate # targetDate) =>
      /\ startHour = 0
      /\ state.targetDate = targetDate
      /\ (pc \in {"studios", "window", "reservation"} => state.lastProcessedHour = -1)
      /\ (runHours # <<>> => runHours[1] = 0)

C4_Witness ==
    /\ pc = "window"
    /\ loaded.targetDate \notin {NoDate, targetDate}
    /\ loaded.lastProcessedHour = 23
    /\ currentHour = 0
    /\ runHours = <<0>>

\* C5: a run that finds lastProcessedHour = L for its own targetDate, with
\* L < currentHour = C, processes the hours L+1, L+2, ..., C in this order,
\* each once; it persists only after the last of them, and then it persists
\* lastProcessedHour = C.
C5_CatchUpRange ==
    (pc # "idle" /\ loaded.targetDate = targetDate
       /\ loaded.lastProcessedHour < currentHour) =>
      /\ Len(runHours) <= currentHour - loaded.lastProcessedHour
      /\ \A i \in 1..Len(runHours) : runHours[i] = loaded.lastProcessedHour + i
      /\ (pc = "done" => runWrites = 1)
      /\ (runWrites = 1 =>
            /\ Len(runHours) = currentHour - loaded.lastProcessedHour
            /\ stateFile = [exists |-> TRUE, targetDate |-> targetDate,
                            lastProcessedHour |-> currentHour])

C5_Witness ==
    /\ pc = "done"
    /\ loaded.targetDate = targetDate
    /\ loaded.lastProcessedHour = 5
    /\ currentHour = 8
    /\ runHours = <<6, 7, 8>>
    /\ stateFile.lastProcessedHour = 8

\* C6: an invocation in the same UTC hour and for the same targetDate as the
\* last completed one processes no bucket, makes no HTTP call and does not
\* write the state file.
C6_SameHourNoOp ==
    (pc # "idle" /\ lastDone.valid /\ lastDone.targetDate = targetDate
       /\ lastDone.hour = currentHour) =>
      /\ pc = "done"
      /\ runHours = <<>>
      /\ runFetches = 0
      /\ runWrites = 0
      /\ stateFile = fileAtStart

C6_Witness ==
    /\ pc = "done"
    /\ lastDone = [valid |-> TRUE, targetDate |-> targetDate, hour |-> currentHour]
    /\ currentHour = 8
    /\ runFetches = 0

\* C7: a run whose studio lookup or reservations fetch fails aborts without
\* writing the state file, the persisted watermark stays as the run found it,
\* and the next invocation starts from the start hour the aborted run had.
C7_AbortRetriesSameHours ==
    /\ (pc = "aborted" /\ abortCause \in {"studios", "reservations"}) =>
         (runWrites = 0 /\ stateFile = fileAtStart)
    /\ (pc # "idle" /\ lastAbort.valid) => startHour = lastAbort.startHour

(***************************************************************************)
(* Properties of fetchJsonWithRateLimit (checked under SpecFetch).         *)
(***************************************************************************)
All429(n) == \A i \in 1..n : served[i].status = TooManyRequests

\* the delay the Retry-After hint h stands for when it is read at time t:
\* seconds when a positive number, the time left when a date still ahead,
\* the 2 s fallback otherwise
HintedDelay(h, t) ==
    IF h.kind = "num" /\ h.v > 0 THEN 1000 * h.v
    ELSE IF h.kind = "date" /\ h.v > t THEN h.v - t
    ELSE 2000

\* C8: when the server answers 429 m times, m < maxRetries, and then with a
\* success status, the call returns that response's body after exactly m+1
\* requests and m sleeps, the i-th sleep lasting the delay of the i-th hint.
C8_RetryThenSuccess ==
    /\ (served # <<>> /\ Ok(served[Len(served)].status)) => fpc = "returned"
    /\ (fpc = "returned") =>
         LET m == Len(served) - 1
         IN /\ m >= 0 /\ m < maxRetries
            /\ All429(m)
            /\ Ok(served[m + 1].status)
            /\ outcome = [kind |-> "json", status |-> served[m + 1].status,
                          body |-> served[m + 1].body]
            /\ requests = m + 1
            /\ Len(sleeps) = m
            /\ \A i \in 1..m : sleeps[i] = HintedDelay(served[i].hint, served[i].at)

C8_Witness ==
    /\ fpc = "returned"
    /\ Len(served) = 4
    /\ served[1].hint = [kind |-> "num", v |-> 1]
    /\ served[2].hint = [kind |-> "date", v |-> 2000]
    /\ served[3].hint = NoHint
    /\ sleeps = <<1000, 1000, 2000>>
    /\ outcome.body = "b2"

\* C9: against a server that answers 429 maxRetries times in a row the call
\* never makes more than maxRetries requests and ends with the 'Exceeded max
\* retries' error.
C9_ExceededMaxRetries ==
    /\ [](requests <= maxRetries)
    /\ [](fpc = "exceeded" => (requests = maxRetries /\ All429(maxRetries)))
    /\ ((Len(served) = maxRetries /\ All429(maxRetries))
          ~> (fpc = "exceeded" /\ outcome.kind = "Exceeded max retries"))

C9_Witness ==
    /\ fpc = "exceeded"
    /\ requests = maxRetries
    /\ Len(sleeps) = maxRetries

\* C10: the first response whose status is neither 429 nor a success status
\* ends the call at once: no sleep follows it, no request follows it, and
\* the error carries that status and that response's body.
C10_FailFast ==
    /\ (served # <<>> /\ ~Ok(served[Len(served)].status)
          /\ served[Len(served)].status # TooManyRequests) =>
         /\ fpc = "failed"
         /\ outcome = [kind |-> "Request failed",
                       status |-> served[Len(served)].status,
                       body |-> served[Len(served)].body]
         /\ requests = Len(served)
         /\ Len(sleeps) = Len(served) - 1
         /\ All429(Len(served) - 1)
    /\ (fpc = "failed") => ~Ok(outcome.status) /\ outcome.status # TooManyRequests

C10_Witness ==
    /\ fpc = "failed"
    /\ Len(served) = 3
    /\ outcome.status = 500
    /\ outcome.body = "b2"
    /\ Len(sleeps) = 2

\* the number of 429 answers among the first n responses
RECURSIVE Count429(_)
Count429(n) ==
    IF n = 0 THEN 0
    ELSE Count429(n - 1) + (IF served[n].status = TooManyRequests THEN 1 ELSE 0)

\* C11 (as stated): a 5xx answer is taken as transient, a sleep follows it and
\* the request is tried again.
C11_ServerErrorRetried ==
    \A i \in 1..Len(served) : served[i].status >= 500 => Len(sleeps) >= i

\* C11 (amended): a 5xx answer is not retried. It ends the call with the
\* 'Request failed' error of that status, no sleep follows it, and the only
\* answers a sleep ever follows are the 429s, at most maxRetries of them.
C11_ServerErrorNotRetried ==
    /\ \A i \in 1..Len(served) :
         served[i].status >= 500 =>
           /\ i = Len(served)
           /\ fpc = "failed"
           /\ outcome.kind = "Request failed"
           /\ outcome.status = served[i].status
           /\ Len(sleeps) < i
    /\ Len(sleeps) = Count429(Len(served))
    /\ Len(sleeps) <= maxRetries

C11_Witness ==
    /\ fpc = "failed"
    /\ Len(served) = 2
    /\ served[1].status = TooManyRequests
    /\ served[2].status = 500
    /\ sleeps = <<2000>>

(***************************************************************************)
(* The offset-paginated Airtable fetchers:                                 *)
(*   airtableListRecordsAll        resolve-class-id.mjs, optional cap      *)
(*   airtableListRecords           resolve-class-id.mjs, cap in the loop   *)
(*   fetchAirtableRecordsFromView  update-class-checkins.js, no cap        *)
(* The view is a sequence of pages; page i answers with its records and,   *)
(* unless it is the last, with the offset token of page i+1.               *)
(***************************************************************************)
Fetchers == {"airtableListRecordsAll", "airtableListRecords", "fetchAirtableRecordsFromView"}

RECURSIVE SeqsUpTo(_, _)
SeqsUpTo(S, n) ==
    IF n = 0 THEN {<<>>}
    ELSE LET shorter == SeqsUpTo(S, n - 1)
         IN shorter \cup {Append(q, x) : q \in shorter, x \in S}

Sources == SeqsUpTo(0..MaxPageSize, MaxPages) \ {<<>>}

\* the number of records on the pages 1..i of the view
RECURSIVE Cum(_, _)
Cum(src, i) == IF i = 0 THEN 0 ELSE Cum(src, i - 1) + src[i]

\* the records n+1 .. n+len, in order
Range(n, len) == [j \in 1..len |-> n + j]

\* data.records of page i: the view's records are numbered in view order
PageRecords(src, i) == Range(Cum(src, i - 1), src[i])

\* data.offset of page i: the token of the next page, none on the last
PageToken(src, i) == IF i < Len(src) THEN i + 1 ELSE NoOffset

\* the page a request with the offset parameter o is answered with
PageServed(o) == IF o = NoOffset THEN 1 ELSE o

\* records.slice(0, n) for n >= 0
Slice(recs, n) == SubSeq(recs, 1, IF n < Len(recs) THEN n ELSE Len(recs))

\* an accumulation that keeps the last page only
Accumulate_Replace(recs, page) == page

\* records.push(...data.records); records.concat(data.records)
Accumulate(recs, page) == recs \o page

\* a cap check that lets the count reach the cap
CapReached_Late(n, cap) == cap # NoCap /\ n > cap

\* airtableListRecordsAll: maxRecords && records.length >= maxRecords
CapReached(n, cap) == cap # NoCap /\ n >= cap

\* airtableListRecords: while (records.length < maxRecords)
BelowCap(n, cap) == n < cap

InitPages ==
    /\ IdleExcept("page")
    /\ pgFn \in Fetchers
    /\ pgCap \in 0..MaxCap
    /\ (pgFn = "fetchAirtableRecordsFromView" => pgCap = NoCap)
    /\ pgSource \in Sources
    /\ pgPc = "loop"
    /\ pgOffset = NoOffset
    /\ pgRecords = <<>>
    /\ pgRequested = <<>>
    /\ pgResult = <<>>

\* one iteration of the while (true) loop of airtableListRecordsAll
airtableListRecordsAll ==
    /\ pgFn = "airtableListRecordsAll"
    /\ pgPc = "loop"
    /\ pgRequested' = Append(pgRequested, pgOffset)
    /\ \E ok \in BOOLEAN :
         IF ~ok
         THEN /\ pgPc' = "threw"
              /\ UNCHANGED <<pgOffset, pgRecords, pgResult>>
         ELSE LET i == PageServed(pgOffset)
                  recs == Accumulate(pgRecords, PageRecords(pgSource, i))
              IN /\ pgRecords' = recs
                 /\ IF CapReached(Len(recs), pgCap)
                    THEN /\ pgResult' = Slice(recs, pgCap)
                         /\ pgPc' = "returned"
                         /\ UNCHANGED pgOffset
                    ELSE /\ pgOffset' = PageToken(pgSource, i)
                         /\ IF pgOffset' = NoOffset
                            THEN pgResult' = recs /\ pgPc' = "returned"
                            ELSE pgPc' = "loop" /\ UNCHANGED pgResult
    /\ UNCHANGED <<pgFn, pgCap, pgSource>>
    /\ UNCHANGED nonPageVars

\* one pass through the while loop of airtableListRecords: the loop test,
\* and the iteration when it holds
airtableListRecords ==
    /\ pgFn = "airtableListRecords"
    /\ pgPc = "loop"
    /\ IF ~BelowCap(Len(pgRecords), pgCap)
       THEN /\ pgResult' = Slice(pgRecords, pgCap)
            /\ pgPc' = "returned"
            /\ UNCHANGED <<pgOffset, pgRecords, pgRequested>>
       ELSE /\ pgRequested' = Append(pgRequested, pgOffset)
            /\ \E ok \in BOOLEAN :
                 IF ~ok
                 THEN /\ pgPc' = "threw"
                      /\ UNCHANGED <<pgOffset, pgRecords, pgResult>>
                 ELSE LET i == PageServed(pgOffset)
                          recs == Accumulate(pgRecords, PageRecords(pgSource, i))
                      IN /\ pgRecords' = recs
                         /\ pgOffset' = PageToken(pgSource, i)
                         /\ IF pgOffset' = NoOffset
                            THEN pgResult' = Slice(recs, pgCap) /\ pgPc' = "returned"
                            ELSE pgPc' = "loop" /\ UNCHANGED pgResult
    /\ UNCHANGED <<pgFn, pgCap, pgSource>>
    /\ UNCHANGED nonPageVars

\* one iteration of the do ... while (offset) loop of fetchAirtableRecordsFromView
fetchAirtableRecordsFromView ==
    /\ pgFn = "fetchAirtableRecordsFromView"
    /\ pgPc = "loop"
    /\ pgRequested' = Append(pgRequested, pgOffset)
    /\ \E ok \in BOOLEAN :
         IF ~ok
         THEN /\ pgPc' = "threw"
              /\ UNCHANGED <<pgOffset, pgRecords, pgResult>>
         ELSE LET i == PageServed(pgOffset)
                  recs == Accumulate(pgRecords, PageRecords(pgSource, i))
              IN /\ pgRecords' = recs
                 /\ pgOffset' = PageToken(pgSource, i)
                 /\ IF pgOffset' = NoOffset
                    THEN pgResult' = recs /\ pgPc' = "returned"
                    ELSE pgPc' = "loop" /\ UNCHANGED pgResult
    /\ UNCHANGED <<pgFn, pgCap, pgSource>>
    /\ UNCHANGED nonPageVars

NextPages ==
    \/ airtableListRecordsAll
    \/ airtableListRecords
    \/ fetchAirtableRecordsFromView

SpecPages == InitPages /\ [][NextPages]_vars

(***************************************************************************)
(* Properties of the paginated fetchers (checked under SpecPages).         *)
(***************************************************************************)
\* all records of the view, in view order
AllRecords == Range(0, Cum(pgSource, Len(pgSource)))

Uncapped ==
    \/ pgFn = "fetchAirtableRecordsFromView"
    \/ (pgFn = "airtableListRecordsAll" /\ pgCap = NoCap)

\* C12: an uncapped fetcher that returns from a view of k pages has made
\* exactly k requests, the first without an offset and each further one with
\* the token the page before gave (so no offset is asked twice), and returns
\* the records of all pages in page order.
C12_AllPagesOnce ==
    (Uncapped /\ pgPc = "returned") =>
      /\ Len(pgRequested) = Len(pgSource)
      /\ \A j \in 1..Len(pgRequested) :
           pgRequested[j] = (IF j = 1 THEN NoOffset ELSE j)
      /\ \A i, j \in 1..Len(pgRequested) : i # j => pgRequested[i] # pgRequested[j]
      /\ pgResult = AllRecords

C12_Witness ==
    /\ Uncapped
    /\ pgPc = "returned"
    /\ pgSource = <<2, 1, 0>>
    /\ pgRequested = <<NoOffset, 2, 3>>
    /\ pgResult = <<1, 2, 3>>

\* the fetcher runs with a cap (for airtableListRecordsAll: a positive one)
Capped ==
    \/ pgFn = "airtableListRecords"
    \/ (pgFn = "airtableListRecordsAll" /\ pgCap # NoCap)

MinutesPerHour == 60
MinutesPerDay == 24 * MinutesPerHour

Jan15 == 14
Mar08 == 66
Jul15 == 195
Nov01 == 304

\* the dates and minutes the Airtable 'date' field is drawn from
WallDays == {Jan15, Mar08, Jul15, Nov01}
WallMinutes == {0, 30}
WallClocks == [day : WallDays, hour : 0..23, minute : WallMinutes]

\* Date.UTC(year, month - 1, day, hour, minute, second)
DateUTC(w) == (w.day * 24 + w.hour) * MinutesPerHour + w.minute

\* the calendar components of an instant read as UTC (toISOString)
Components(t) ==
    [day |-> t \div MinutesPerDay,
     hour |-> (t % MinutesPerDay) \div MinutesPerHour,
     minute |-> t % MinutesPerHour]

DstStart == DateUTC([day |-> Mar08, hour |-> 7, minute |-> 0])
DstEnd == DateUTC([day |-> Nov01, hour |-> 6, minute |-> 0])

\* a zone without daylight time
ZoneOffsetMinutes_NoDst(t) == -300

\* the zone's rule, TIMEZONE = "America/Toronto": local = utc + offset
ZoneOffsetMinutes(t) == IF DstStart <= t /\ t < DstEnd THEN -240 ELSE -300

\* dtf.formatToParts(dateUtc): the instant rendered in the zone
formatToParts(t) == Components(t + ZoneOffsetMinutes(t))

getTimeZoneOffsetMinutes(t) ==
    LET localAsUtcMs == DateUTC(formatToParts(t))
    IN localAsUtcMs - t

torontoWallClockToUtcIso(w) ==
    LET wallClockAsUtcMs == DateUTC(w)
        offsetMin == getTimeZoneOffsetMinutes(wallClockAsUtcMs)
        realUtcMs == wallClockAsUtcMs - offsetMin
    IN Components(realUtcMs)

InitTz ==
    /\ IdleExcept("tz")
    /\ tzWall \in WallClocks
    /\ tzPc = "start"
    /\ tzUtc = NoWall
    /\ tzBack = NoWall

\* the script converts the parsed Airtable date
tzConvert ==
    /\ tzPc = "start"
    /\ tzUtc' = torontoWallClockToUtcIso(tzWall)
    /\ tzPc' = "converted"
    /\ UNCHANGED <<tzWall, tzBack>>
    /\ UNCHANGED nonTzVars

\* the returned instant is rendered in the same zone
tzRender ==
    /\ tzPc = "converted"
    /\ tzBack' = formatToParts(DateUTC(tzUtc))
    /\ tzPc' = "rendered"
    /\ UNCHANGED <<tzWall, tzUtc>>
    /\ UNCHANGED nonTzVars

NextTz ==
    \/ tzConvert
    \/ tzRender

SpecTz == InitTz /\ [][NextTz]_vars

\* a wall-clock value is valid when some instant shows it in the zone
ValidWall(w) ==
    \E off \in {-240, -300} : formatToParts(DateUTC(w) - off) = w

\* C14: for every valid wall-clock date-time, converting it and rendering
\* the result in the same zone gives back the wall-clock components, also
\* within a few hours of a daylight-saving transition.
C14_RoundTrip ==
    (tzPc = "rendered" /\ ValidWall(tzWall)) => tzBack = tzWall

\* the offsets the zone has during the local calendar day d
OffsetsInForce(d) ==
    {ZoneOffsetMinutes(t) : t \in {u \in {d * MinutesPerDay + k * MinutesPerHour : k \in 4..28} :
                                      formatToParts(u).day = d}}

\* C15: the conversion returns the wall clock minus the zone's offset in
\* force on that date; 10:30 gives 14:30Z on 2026-07-15 (daylight time)
\* and 15:30Z on a standard-time date.
C15_WallMinusOffset ==
    tzPc \in {"converted", "rendered"} =>
        /\ \E off \in OffsetsInForce(tzWall.day) : DateUTC(tzUtc) = DateUTC(tzWall) - off
        /\ tzWall = [day |-> Jul15, hour |-> 10, minute |-> 30] =>
               tzUtc = [day |-> Jul15, hour |-> 14, minute |-> 30]
        /\ tzWall = [day |-> Jan15, hour |-> 10, minute |-> 30] =>
               tzUtc = [day |-> Jan15, hour |-> 15, minute |-> 30]

C15_Witness ==
    /\ tzPc = "converted"
    /\ tzWall = [day |-> Jul15, hour |-> 10, minute |-> 30]
    /\ tzUtc = [day |-> Jul15, hour |-> 14, minute |-> 30]

(***************************************************************************)
(* The rating import, scripts/import-instructor-ratings.js: main run any   *)
(* number of times, one after the other, against the same Airtable base   *)
(* and the same form record.  Every HTTP call may fail.  The feedback      *)
(* table answers filterByFormula by the records whose Contact, Studio link *)
(* and DATE OF RATING satisfy the formula feedbackExists sends.            *)
(***************************************************************************)
\* parseDateOnlyToISO returning null
NoIsoDate == ""

Studios == {"recS1", "recS2"}

\* the data rows a CSV is made of: the Contact and the date cell
CsvRows ==
    {[contact |-> "ann@x.io", date |-> "2/2/2026"],
     [contact |-> "ann@x.io", date |-> "2026-02-02"],
     [contact |-> "ann@x.io", date |-> "2/3/2026"],
     [contact |-> "Bob", date |-> "2/2/2026"],
     [contact |-> "", date |-> "2/2/2026"],
     [contact |-> "ann@x.io", date |-> "n/a"]}

Csvs == SeqsUpTo(CsvRows, MaxRows)

\* new Date(raw), then the date-only ISO string of its day
parseDateOnlyToISO(v) ==
    CASE v = "2/2/2026"   -> "2026-02-02T00:00:00.000Z"
      [] v = "2026-02-02" -> "2026-02-02T00:00:00.000Z"
      [] v = "2/3/2026"   -> "2026-02-03T00:00:00.000Z"
      [] OTHER            -> NoIsoDate

\* the contacts that are an e-mail address; the others resolve to none
looksLikeEmail(v) == v = "ann@x.io"

\* a dedupe check that finds nothing
feedbackExists_Never(table, contact, studioId, dateISO) == FALSE

\* the filterByFormula query: out.records.length > 0
feedbackExists(table, contact, studioId, dateISO) ==
    \E i \in 1..Len(table) :
        /\ table[i].contact = contact
        /\ table[i].studio = studioId
        /\ table[i].date = dateISO

\* the log update of the catch block, with a status that is not the error one
FatalFields_Started(msg) == [status |-> "Started", issue |-> msg]

\* the log update of the catch block
FatalFields(msg) == [status |-> "ISSUE", issue |-> msg]

\* the log update at the end of the try block
FinalFields(n) == [status |-> IF n > 0 THEN "ISSUE" ELSE "Completed", issue |-> NoError]

InitImport ==
    /\ IdleExcept("imp")
    /\ formStudio \in Studios \cup {NoStudio}
    /\ formCsv \in Csvs
    /\ impPc = "idle"
    /\ impRuns = 0
    /\ impStudio = NoStudio
    /\ impCsv = <<>>
    /\ impI = 0
    /\ imported = 0
    /\ feedbacks = <<>>
    /\ logId = NoLog
    /\ logUpdates = <<>>
    /\ issues = 0
    /\ impThrown = NoError
    /\ impFatal = NoError
    /\ impExit = NoExit
    /\ impDone = {}

\* an error thrown inside main's try block
Throw(msg) ==
    /\ impThrown' = msg
    /\ impPc' = "catch"

\* the workflow starts the script: main's locals
impStart ==
    /\ impPc \in {"idle", "exited"}
    /\ impRuns < MaxRuns
    /\ impRuns' = impRuns + 1
    /\ impPc' = "createLog"
    /\ logId' = NoLog
    /\ imported' = 0
    /\ issues' = 0
    /\ impI' = 0
    /\ impStudio' = NoStudio
    /\ impCsv' = <<>>
    /\ logUpdates' = <<>>
    /\ impThrown' = NoError
    /\ impFatal' = NoError
    /\ impExit' = NoExit
    /\ UNCHANGED <<feedbacks, impDone>>
    /\ UNCHANGED <<formStudio, formCsv>>
    /\ UNCHANGED nonImpVars

\* logId = await createLog()
createLog ==
    /\ impPc = "createLog"
    /\ \E ok \in BOOLEAN :
         IF ok
         THEN /\ logId' = impRuns
              /\ impPc' = "loadForm"
              /\ UNCHANGED impThrown
         ELSE /\ Throw("createLog failed")
              /\ UNCHANGED logId
    /\ UNCHANGED <<impRuns, impStudio, impCsv, impI, imported, feedbacks, logUpdates,
                   issues, impFatal, impExit, impDone>>
    /\ UNCHANGED <<formStudio, formCsv>>
    /\ UNCHANGED nonImpVars

\* the form record, the CSV download and parse, the customers link info
loadForm ==
    /\ impPc = "loadForm"
    /\ \E ok \in BOOLEAN :
         LET studio == formStudio
             csv == formCsv
         IN
         CASE ~ok ->
                /\ Throw("form or CSV fetch failed")
                /\ UNCHANGED <<impStudio, impCsv, impI>>
           [] ok /\ studio = NoStudio ->
                /\ Throw("Missing Studio on form record")
                /\ UNCHANGED <<impStudio, impCsv, impI>>
           [] ok /\ studio # NoStudio /\ csv = <<>> ->
                /\ Throw("CSV has no data rows")
                /\ UNCHANGED <<impStudio, impCsv, impI>>
           [] OTHER ->
                /\ impStudio' = studio
                /\ impCsv' = csv
                /\ impI' = 1
                /\ impPc' = "rows"
                /\ UNCHANGED impThrown
    /\ UNCHANGED <<impRuns, imported, feedbacks, logId, logUpdates, issues, impFatal,
                   impExit, impDone>>
    /\ UNCHANGED <<formStudio, formCsv>>
    /\ UNCHANGED nonImpVars

\* one iteration of main's loop over the data rows
importRow ==
    /\ impPc = "rows"
    /\ impI <= Len(impCsv)
    /\ LET contact == impCsv[impI].contact
           dateISO == parseDateOnlyToISO(impCsv[impI].date)
       IN IF contact = "" \/ dateISO = NoIsoDate
          THEN /\ issues' = issues + 1
               /\ impI' = impI + 1
               /\ UNCHANGED <<impPc, imported, feedbacks, impThrown>>
          ELSE \E okQuery \in BOOLEAN, okPost \in BOOLEAN :
                 CASE ~okQuery ->
                        /\ Throw("dedupe query failed")
                        /\ UNCHANGED <<impI, imported, feedbacks, issues>>
                   [] okQuery /\ feedbackExists(feedbacks, contact, impStudio, dateISO) ->
                        /\ impI' = impI + 1
                        /\ UNCHANGED <<impPc, imported, feedbacks, issues, impThrown>>
                   [] OTHER ->
                        IF okPost
                        THEN /\ feedbacks' = Append(feedbacks,
                                    [contact |-> contact, studio |-> impStudio, date |-> dateISO])
                             /\ imported' = imported + 1
                             /\ issues' = issues + (IF looksLikeEmail(contact) THEN 0 ELSE 1)
                             /\ impI' = impI + 1
                             /\ UNCHANGED <<impPc, impThrown>>
                        ELSE /\ Throw("create failed")
                             /\ UNCHANGED <<impI, imported, feedbacks, issues>>
    /\ UNCHANGED <<impRuns, impStudio, impCsv, logId, logUpdates, impFatal, impExit, impDone>>
    /\ UNCHANGED <<formStudio, formCsv>>
    /\ UNCHANGED nonImpVars

\* the loop is over: the final updateLog of the try block
finishRun ==
    /\ impPc = "rows"
    /\ impI > Len(impCsv)
    /\ impDone' = impDone \cup {<<impCsv, impStudio>>}
    /\ \E ok \in BOOLEAN :
         /\ logUpdates' = Append(logUpdates, [fields |-> FinalFields(issues), ok |-> ok])
         /\ IF ok
            THEN /\ impPc' = "exited"
                 /\ impExit' = 0
                 /\ UNCHANGED impThrown
            ELSE /\ Throw("log update failed")
                 /\ UNCHANGED impExit
    /\ UNCHANGED <<impRuns, impStudio, impCsv, impI, imported, feedbacks, logId, issues,
                   impFatal>>
    /\ UNCHANGED <<formStudio, formCsv>>
    /\ UNCHANGED nonImpVars

\* main's catch block
catchFatal ==
    /\ impPc = "catch"
    /\ impFatal' = impThrown
    /\ IF logId # NoLog
       THEN \E ok \in BOOLEAN :
              logUpdates' = Append(logUpdates, [fields |-> FatalFields(impThrown), ok |-> ok])
       ELSE UNCHANGED logUpdates
    /\ impExit' = 1
    /\ impPc' = "exited"
    /\ UNCHANGED <<impRuns, impStudio, impCsv, impI, imported, feedbacks, logId, issues,
                   impThrown, impDone>>
    /\ UNCHANGED <<formStudio, formCsv>>
    /\ UNCHANGED nonImpVars

NextImport ==
    \/ impStart
    \/ createLog
    \/ loadForm
    \/ importRow
    \/ finishRun
    \/ catchFatal

SpecImport == InitImport /\ [][NextImport]_vars

C17_FatalLogged ==
    (impPc = "exited" /\ impThrown # NoError) =>
        /\ impExit = 1
        /\ impFatal = impThrown
        /\ IF logId # NoLog
           THEN /\ logUpdates # <<>>
                /\ logUpdates[Len(logUpdates)].fields = [status |-> "ISSUE", issue |-> impThrown]
           ELSE logUpdates = <<>>

C17_Witness ==
    /\ impPc = "exited"
    /\ logId # NoLog
    /\ impThrown = "create failed"
    /\ Len(logUpdates) = 1
    /\ logUpdates[1] = [fields |-> [status |-> "ISSUE", issue |-> "create failed"], ok |-> FALSE]
    /\ impFatal = "create failed"
    /\ impExit = 1

(***************************************************************************)
(* The window and the reservation loop of processHourWindow, and the delay *)
(* of fetchJsonWithRateLimit for each kind of hint.                        *)
(***************************************************************************)
\* C18: for every hour h of 0..23 handed to processHourWindow, the window
\* queried starts at targetDate h:00 UTC and ends exactly one hour later.
C18_WindowOneHour ==
    \A i \in 1..Len(runHours) :
        /\ runHours[i] \in 0..(HoursPerDay - 1)
        /\ WindowStart(targetDate, runHours[i]) = targetDate * HoursPerDay + runHours[i]
        /\ WindowEnd(targetDate, runHours[i]) = WindowStart(targetDate, runHours[i]) + 1

\* C19: an error raised while one reservation is processed is caught and
\* the loop goes on with the next reservation; the iteration of the
\* reservation loop never aborts the bucket or the run.
C19_LoopNeverAborts ==
    [][pc = "reservation" => pc' # "aborted"]_vars

\* C20: after a 429 the call sleeps hint * 1000 ms for a numeric hint,
\* hintTime - now for a date-like hint and 2000 ms for an absent or invalid
\* one, for every hint value, a numeric 0 and a past date included.
C20_EveryHint ==
    \A i \in 1..Len(sleeps) :
        LET h == served[i].hint
            t == served[i].at
        IN sleeps[i] = (CASE h.kind = "num"  -> h.v * 1000
                          [] h.kind = "date" -> h.v - t
                          [] OTHER           -> 2000)

\* C20 as the code has it: a numeric hint above 0 is slept in seconds, a
\* date-like hint later than now is slept up to that time, and every other
\* hint (absent, invalid, a number not above 0, a date not after now) gets
\* the fixed 2000 ms.
C20_PositiveHint ==
    \A i \in 1..Len(sleeps) :
        LET h == served[i].hint
            t == served[i].at
        IN /\ (h.kind = "num" /\ h.v > 0) => sleeps[i] = h.v * 1000
           /\ (h.kind = "date" /\ h.v > t) => sleeps[i] = h.v - t
           /\ (h.kind = "num" /\ h.v <= 0) => sleeps[i] = 2000
           /\ (h.kind = "date" /\ h.v <= t) => sleeps[i] = 2000
           /\ (h.kind \notin {"num", "date"}) => sleeps[i] = 2000

C20_Witness ==
    /\ Len(sleeps) = 3
    /\ served[1].hint = [kind |-> "num", v |-> 1]
    /\ sleeps[1] = 1000
    /\ served[2].hint = [kind |-> "num", v |-> 0]
    /\ sleeps[2] = 2000
    /\ served[3].hint.kind = "date"
    /\ served[3].hint.v < served[3].at
    /\ sleeps[3] = 2000

(***************************************************************************)
(* The Graph-email variant of the reminder (unnamed/part_002): the         *)
(* reservation loop of processHourWindow from the look-ups to the email    *)
(* log, with sendMailGraph and its backoff.                                *)
(***************************************************************************)
\* const maxAttempts = 5
maxAttempts == 5

\* Graph answers 202 to an accepted sendMail
GraphStatuses == {202, 400, TooManyRequests, 503, 504}

GraphResponses ==
    {[status |-> TooManyRequests, hint |-> h] : h \in Hints}
      \cup {[status |-> st, hint |-> NoHint] : st \in GraphStatuses \ {TooManyRequests}}

\* const isRetryable = status === 429 || status === 503 || status === 504
isRetryable(status) == status \in {TooManyRequests, 503, 504}

\* a send that returns on every answer but a plain client error
Returns_Lenient(status) == status # 400

\* if (res.ok) return
Returns(status) == Ok(status)

\* const ladder = [2000, 10_000, 30_000, 120_000, 300_000]
ladder == <<2000, 10000, 30000, 120000, 300000>>

\* a backoff without ladder: the fixed fallback on every attempt
GraphDelayMs_NoLadder(h, a) ==
    IF h.kind = "num" /\ h.v # 0 THEN h.v * 1000 ELSE FallbackDelayMs

\* the delay sendMailGraph sleeps after a retryable answer with hint h on
\* attempt a: Number(retryAfter) * 1000 unless NaN or 0, else the ladder
GraphDelayMs(h, a) ==
    IF h.kind = "num" /\ h.v # 0
    THEN h.v * 1000
    ELSE ladder[(IF a - 1 < Len(ladder) - 1 THEN a - 1 ELSE Len(ladder) - 1) + 1]

\* the sum of the first n delays slept: the time since the call began
RECURSIVE Slept(_, _)
Slept(q, n) == IF n = 0 THEN 0 ELSE Slept(q, n - 1) + q[n]

InitMail ==
    /\ IdleExcept("mail")
    /\ mailPc = "lookup"
    /\ mailR = 1
    /\ mailAttempt = 0
    /\ mailServed = <<>>
    /\ mailSleeps = <<>>
    /\ mailSent = {}
    /\ mailLogs = <<>>

\* sendMailGraph has returned or thrown: its locals are gone
CallOver ==
    /\ mailAttempt' = 0
    /\ mailServed' = <<>>
    /\ mailSleeps' = <<>>

\* the loop goes on with the next reservation of the bucket
NextReservation ==
    /\ mailR' = mailR + 1
    /\ mailPc' = IF mailR + 1 > MaxMails THEN "finished" ELSE "lookup"

\* the iteration up to the send: relationships, look-ups, the address
mailLookup ==
    /\ mailPc = "lookup"
    /\ mailR <= MaxMails
    /\ \E o \in {"ready", "skipped", "caught", "unhandled"} :
         CASE o = "ready" ->
                /\ mailPc' = "send"
                /\ mailAttempt' = 1
                /\ UNCHANGED <<mailR, mailServed, mailSleeps>>
           [] o = "unhandled" ->
                /\ mailPc' = "died"
                /\ UNCHANGED <<mailR, mailAttempt, mailServed, mailSleeps>>
           [] OTHER ->
                /\ NextReservation
                /\ UNCHANGED <<mailAttempt, mailServed, mailSleeps>>
    /\ UNCHANGED <<mailSent, mailLogs>>
    /\ UNCHANGED nonMailVars

\* sendMailGraph: one iteration of its loop
sendMailGraph ==
    /\ mailPc = "send"
    /\ mailAttempt <= maxAttempts
    /\ \E tokenOk \in BOOLEAN :
         IF ~tokenOk
         THEN /\ NextReservation
              /\ CallOver
              /\ UNCHANGED mailSent
         ELSE \E res \in GraphResponses :
                IF Returns(res.status)
                THEN /\ mailSent' = IF Ok(res.status) THEN mailSent \cup {mailR} ELSE mailSent
                     /\ mailPc' = "log"
                     /\ CallOver
                     /\ UNCHANGED mailR
                ELSE IF ~isRetryable(res.status) \/ mailAttempt = maxAttempts
                THEN /\ NextReservation
                     /\ CallOver
                     /\ UNCHANGED mailSent
                ELSE /\ mailServed' = Append(mailServed,
                           [status |-> res.status, hint |-> res.hint,
                            at |-> Slept(mailSleeps, Len(mailSleeps))])
                     /\ mailSleeps' = Append(mailSleeps, GraphDelayMs(res.hint, mailAttempt))
                     /\ mailAttempt' = mailAttempt + 1
                     /\ UNCHANGED <<mailPc, mailR, mailSent>>
    /\ UNCHANGED mailLogs
    /\ UNCHANGED nonMailVars

\* await createEmailLog(payload.email), after sendMailGraph returned
createEmailLog ==
    /\ mailPc = "log"
    /\ \E ok \in BOOLEAN :
         mailLogs' = IF ok THEN Append(mailLogs, mailR) ELSE mailLogs
    /\ NextReservation
    /\ UNCHANGED <<mailAttempt, mailServed, mailSleeps, mailSent>>
    /\ UNCHANGED nonMailVars

NextMail ==
    \/ mailLookup
    \/ sendMailGraph
    \/ createEmailLog

SpecMail == InitMail /\ [][NextMail]_vars

C29_LogOnlyAfterSend ==
    /\ \A i \in 1..Len(mailLogs) : mailLogs[i] \in mailSent
    /\ mailPc = "log" => mailR \in mailSent

C29_Witness ==
    /\ mailPc = "finished"
    /\ mailSent = {1, 2}
    /\ mailLogs = <<2>>

(***************************************************************************)
(* getAllReservationsForClassSession (scripts/process-mtek-class.js and    *)
(* unnamed/part_005): the reservations of a class session, page by page.   *)
(* The endpoint serves its pages by number; a response carries links.next, *)
(* the address of the following page, or not.                              *)
(***************************************************************************)
\* MTEK_PAGE_SIZE, scaled to the page sizes of the model
MTEK_PAGE_SIZE == MaxPageSize

\* nextPath = null
NoPath == 0

MtekPages == [size : 0..MTEK_PAGE_SIZE, next : BOOLEAN]

\* the endpoints: the last page carries no links.next
MtekSources ==
    {src \in SeqsUpTo(MtekPages, MaxPages) : src # <<>> /\ ~src[Len(src)].next}

\* the response to a request of page p: past the last page, an empty one
MtekResponse(src, p) == IF p <= Len(src) THEN src[p] ELSE [size |-> 0, next |-> FALSE]

\* json.data of page p: the reservations are numbered in page order
MtekData(src, p) ==
    IF p <= Len(src) THEN Range(Cum([i \in 1..Len(src) |-> src[i].size], p - 1), src[p].size)
    ELSE <<>>

\* the dedupe by reservation id: the first occurrence of each is kept
RECURSIVE Dedupe(_)
Dedupe(q) ==
    IF q = <<>> THEN <<>>
    ELSE LET front == Dedupe(SubSeq(q, 1, Len(q) - 1))
             r == q[Len(q)]
         IN IF \E i \in 1..Len(front) : front[i] = r THEN front ELSE Append(front, r)

\* the fallback's next page: page += 1, from the counter of the fallback
FallbackPage(page, asked) == page + 1

InitCursor ==
    /\ IdleExcept("cur")
    /\ curSource \in MtekSources
    /\ curPc = "loop"
    /\ curNext = 1
    /\ curPage = 1
    /\ curAll = <<>>
    /\ curRequested = <<>>
    /\ curLast = [size |-> 0, next |-> FALSE]
    /\ curResult = <<>>

\* one iteration of while (nextPath)
getAllReservationsForClassSession ==
    /\ curPc = "loop"
    /\ curNext # NoPath
    /\ \E ok \in BOOLEAN :
         IF ~ok
         THEN /\ curPc' = "threw"
              /\ UNCHANGED <<curNext, curPage, curAll, curRequested, curLast>>
         ELSE LET res == MtekResponse(curSource, curNext)
              IN /\ curRequested' = Append(curRequested, curNext)
                 /\ curLast' = res
                 /\ curAll' = curAll \o MtekData(curSource, curNext)
                 /\ IF res.next
                    THEN /\ curNext' = curNext + 1
                         /\ UNCHANGED curPage
                    ELSE IF res.size < MTEK_PAGE_SIZE
                    THEN /\ curNext' = NoPath
                         /\ UNCHANGED curPage
                    ELSE /\ curPage' = FallbackPage(curPage, curNext)
                         /\ curNext' = FallbackPage(curPage, curNext)
                 /\ UNCHANGED curPc
    /\ UNCHANGED <<curSource, curResult>>
    /\ UNCHANGED nonCurVars

\* the loop is over: dedupe and return
cursorReturn ==
    /\ curPc = "loop"
    /\ curNext = NoPath
    /\ curResult' = Dedupe(curAll)
    /\ curPc' = "returned"
    /\ UNCHANGED <<curSource, curNext, curPage, curAll, curRequested, curLast>>
    /\ UNCHANGED nonCurVars

NextCursor ==
    \/ getAllReservationsForClassSession
    \/ cursorReturn

SpecCursor == InitCursor /\ [][NextCursor]_vars

\* C22: for any mix of responses with and without links.next, no page of
\* the source is requested twice, and the fetch stops at the first response
\* that has no links.next and fewer than page-size items.
C22_NoPageTwice ==
    /\ \A i, j \in 1..Len(curRequested) : i # j => curRequested[i] # curRequested[j]
    /\ (curRequested # <<>> /\ ~curLast.next /\ curLast.size < MTEK_PAGE_SIZE)
          => curNext = NoPath
    /\ curPc = "returned" => (~curLast.next /\ curLast.size < MTEK_PAGE_SIZE)

(***************************************************************************)
(* The batched writes: updateAirtableCounts (update-class-checkins.js) and *)
(* deleteRecords (unnamed/part_006).  An input record is its position in   *)
(* the input; for updateAirtableCounts it carries a Class ID or not.       *)
(***************************************************************************)
\* const BATCH_SIZE = 10; chunk(recordIds, 10)
BATCH_SIZE == 10
\* const MAX_RECORDS_TO_DELETE = 50000
MAX_RECORDS_TO_DELETE == 50000

BatchFns == {"updateAirtableCounts", "deleteRecords"}

BatchInputs == UNION {[1..n -> BOOLEAN] : n \in 0..MaxBatchInput}

\* a slice that takes one record more
BatchSlice_OneMore(n, i) == (i + 1)..(IF i + BATCH_SIZE + 1 < n THEN i + BATCH_SIZE + 1 ELSE n)

\* records.slice(i, i + BATCH_SIZE): the positions i+1 .. i+BATCH_SIZE of 1..n
BatchSlice(n, i) == (i + 1)..(IF i + BATCH_SIZE < n THEN i + BATCH_SIZE ELSE n)

\* the positions of S that carry a Class ID, in input order
Updates(input, S) == SortedSeq({k \in S : input[k]})

InitBatch ==
    /\ IdleExcept("bat")
    /\ batFn \in BatchFns
    /\ batInput \in BatchInputs
    /\ (batFn = "deleteRecords" => \A k \in 1..Len(batInput) : batInput[k])
    /\ batI = 0
    /\ batRequests = <<>>
    /\ batPc = "loop"

\* one iteration of the outer loop: the look-ups of the batch and its PATCH
updateAirtableCounts ==
    /\ batFn = "updateAirtableCounts"
    /\ batPc = "loop"
    /\ batI < Len(batInput)
    /\ LET updates == Updates(batInput, BatchSlice(Len(batInput), batI))
       IN IF updates = <<>>
          THEN /\ batI' = batI + BATCH_SIZE
               /\ UNCHANGED <<batRequests, batPc>>
          ELSE \E okCounts \in BOOLEAN, okPatch \in BOOLEAN :
                 IF ~okCounts
                 THEN /\ batPc' = "threw"
                      /\ UNCHANGED <<batI, batRequests>>
                 ELSE /\ batRequests' = Append(batRequests, updates)
                      /\ IF okPatch
                         THEN batI' = batI + BATCH_SIZE /\ UNCHANGED batPc
                         ELSE batPc' = "threw" /\ UNCHANGED batI
    /\ UNCHANGED <<batFn, batInput>>
    /\ UNCHANGED nonBatVars

\* deleteRecords: the guards, then one iteration of the loop over the chunks
deleteRecords ==
    /\ batFn = "deleteRecords"
    /\ batPc = "loop"
    /\ batI < Len(batInput)
    /\ IF Len(batInput) > MAX_RECORDS_TO_DELETE
       THEN /\ batPc' = "threw"
            /\ UNCHANGED <<batI, batRequests>>
       ELSE \E ok \in BOOLEAN :
              /\ batRequests' = Append(batRequests,
                     SortedSeq(BatchSlice(Len(batInput), batI)))
              /\ IF ok
                 THEN batI' = batI + BATCH_SIZE /\ UNCHANGED batPc
                 ELSE batPc' = "threw" /\ UNCHANGED batI
    /\ UNCHANGED <<batFn, batInput>>
    /\ UNCHANGED nonBatVars

\* the loop is over, or there was nothing to delete
batchReturn ==
    /\ batPc = "loop"
    /\ batI >= Len(batInput)
    /\ batPc' = "returned"
    /\ UNCHANGED <<batFn, batInput, batI, batRequests>>
    /\ UNCHANGED nonBatVars

NextBatch ==
    \/ updateAirtableCounts
    \/ deleteRecords
    \/ batchReturn

SpecBatch == InitBatch /\ [][NextBatch]_vars

RECURSIVE Flatten(_)
Flatten(qs) == IF qs = <<>> THEN <<>> ELSE Flatten(SubSeq(qs, 1, Len(qs) - 1)) \o qs[Len(qs)]

\* C23: over a successful run of updateAirtableCounts or deleteRecords
\* every eligible input record is in exactly one request, the requests
\* taken together list the eligible records in input order, and every
\* request carries at least one and at most 10 records.
C23_BatchesPartition ==
    /\ \A r \in 1..Len(batRequests) :
          Len(batRequests[r]) >= 1 /\ Len(batRequests[r]) <= 10
    /\ batPc = "returned" =>
          Flatten(batRequests) = Updates(batInput, 1..Len(batInput))

C23_Witness ==
    /\ batPc = "returned"
    /\ batFn = "updateAirtableCounts"
    /\ Len(batInput) = 12
    /\ ~batInput[3]
    /\ Len(batRequests) = 2
    /\ Len(batRequests[1]) = 9
    /\ batRequests[2] = <<11, 12>>

(***************************************************************************)
(* Two invocations of the reminder script (scripts/send-mtek-reminders.js) *)
(* that overlap in time and share the state file.  Each runs main once;    *)
(* their steps interleave freely: the script takes no lock on the file.    *)
(***************************************************************************)
Runners == {1, 2}

IdleRunner ==
    [pc |-> "idle", found |-> AbsentFile, loaded |-> NoWatermark, state |-> NoWatermark,
     targetDate |-> NoDate, currentHour |-> -1, startHour |-> -1, hour |-> -1,
     pending |-> <<>>]

\* the files an earlier invocation of the same day can have left
RaceFiles ==
    {AbsentFile} \cup
    {saveState([targetDate |-> 1, lastProcessedHour |-> h]) : h \in (-1)..0}

InitRace ==
    /\ IdleExcept("race")
    /\ rcNow \in 1..MaxRaceNow
    /\ rcFile \in RaceFiles
    /\ rcRunner = [i \in Runners |-> IdleRunner]
    /\ rcSentBy = [r \in Reservations |-> {}]

\* main of invocation i, up to the first network call
raceStart(i) ==
    /\ rcRunner[i].pc = "idle"
    /\ LET s0 == loadState(rcFile)
           t  == getUtcTomorrowAndCurrentHour(rcNow)
           s1 == ResetIfDateChanged(s0, t.targetDate)
           sh == StartHour(s1)
       IN rcRunner' = [rcRunner EXCEPT ![i] =
             [pc |-> IF NothingToProcess(sh, t.currentHour) THEN "done" ELSE "studios",
              found |-> rcFile, loaded |-> s0, state |-> s1,
              targetDate |-> t.targetDate, currentHour |-> t.currentHour,
              startHour |-> sh, hour |-> -1, pending |-> <<>>]]
    /\ UNCHANGED <<rcNow, rcFile, rcSentBy>>
    /\ UNCHANGED nonRaceVars

\* main of invocation i: await loadStudiosMap()
raceLoadStudios(i) ==
    /\ rcRunner[i].pc = "studios"
    /\ \E ok \in BOOLEAN :
         rcRunner' = [rcRunner EXCEPT ![i] =
             IF ok THEN [@ EXCEPT !.pc = "window", !.hour = rcRunner[i].startHour]
             ELSE [@ EXCEPT !.pc = "aborted"]]
    /\ UNCHANGED <<rcNow, rcFile, rcSentBy>>
    /\ UNCHANGED nonRaceVars

\* processHourWindow of invocation i, up to the reservation loop
raceHourWindow(i) ==
    /\ rcRunner[i].pc = "window"
    /\ rcRunner[i].hour <= rcRunner[i].currentHour
    /\ \E ok \in BOOLEAN :
         rcRunner' = [rcRunner EXCEPT ![i] =
             IF ~ok THEN [@ EXCEPT !.pc = "aborted"]
             ELSE LET rs == WindowReservations(rcRunner[i].targetDate, rcRunner[i].hour)
                  IN IF rs = <<>>
                     THEN [@ EXCEPT !.hour = @ + 1]
                     ELSE [@ EXCEPT !.pc = "reservation", !.pending = rs]]
    /\ UNCHANGED <<rcNow, rcFile, rcSentBy>>
    /\ UNCHANGED nonRaceVars

\* processHourWindow of invocation i: one iteration of the reservation loop
raceReservation(i) ==
    /\ rcRunner[i].pc = "reservation"
    /\ rcRunner[i].pending # <<>>
    /\ LET r == Head(rcRunner[i].pending)
           rest == Tail(rcRunner[i].pending)
       IN \E o \in IterationOutcomes(r) :
            /\ rcSentBy' = IF o = "posted"
                           THEN [rcSentBy EXCEPT ![r] = @ \cup {i}]
                           ELSE rcSentBy
            /\ rcRunner' = [rcRunner EXCEPT ![i] =
                 IF o = "unhandled" THEN [@ EXCEPT !.pc = "aborted"]
                 ELSE IF rest = <<>>
                 THEN [@ EXCEPT !.pc = "window", !.pending = rest, !.hour = @ + 1]
                 ELSE [@ EXCEPT !.pending = rest]]
    /\ UNCHANGED <<rcNow, rcFile>>
    /\ UNCHANGED nonRaceVars

\* main of invocation i, after the loop: advance the watermark, saveState
raceSave(i) ==
    /\ rcRunner[i].pc = "window"
    /\ rcRunner[i].hour > rcRunner[i].currentHour
    /\ LET s2 == Advance(rcRunner[i].state, rcRunner[i].currentHour)
       IN \E ok \in BOOLEAN :
            /\ rcFile' = IF ok THEN saveState(s2) ELSE rcFile
            /\ rcRunner' = [rcRunner EXCEPT ![i] =
                 [@ EXCEPT !.pc = IF ok THEN "done" ELSE "aborted", !.state = s2]]
    /\ UNCHANGED <<rcNow, rcSentBy>>
    /\ UNCHANGED nonRaceVars

NextRace ==
    \/ \E i \in Runners : raceStart(i)
    \/ \E i \in Runners : raceLoadStudios(i)
    \/ \E i \in Runners : raceHourWindow(i)
    \/ \E i \in Runners : raceReservation(i)
    \/ \E i \in Runners : raceSave(i)

SpecRace == InitRace /\ [][NextRace]_vars

\* C24: two overlapping invocations race on the state file: each one,
\* whenever it starts, takes the watermark that is in the file at that
\* time, so both can load the same watermark, then start at the same hour
\* and hand the same buckets to processHourWindow, and a reservation is
\* sent twice.
C24_OverlapSameBuckets ==
    \A i \in Runners :
        rcRunner[i].pc # "idle" =>
            /\ rcRunner[i].loaded =
                  IF rcRunner[i].found.exists
                  THEN [targetDate |-> rcRunner[i].found.targetDate,
                        lastProcessedHour |-> rcRunner[i].found.lastProcessedHour]
                  ELSE [targetDate |-> NoDate, lastProcessedHour |-> -1]
            /\ \A j \in Runners :
                  (rcRunner[j].pc # "idle" /\ rcRunner[j].found = rcRunner[i].found) =>
                      /\ rcRunner[j].startHour = rcRunner[i].startHour
                      /\ rcRunner[j].targetDate = rcRunner[i].targetDate
                      /\ rcRunner[j].currentHour = rcRunner[i].currentHour

C24_Witness ==
    /\ rcRunner[1].found = rcRunner[2].found
    /\ rcRunner[1].pc = "done"
    /\ rcRunner[2].pc = "done"
    /\ rcSentBy[1] = {1, 2}

(***************************************************************************)
(* loadState on any contents of the state file, in the two versions of the *)
(* reminder script: scripts/send-mtek-reminders.js, which checks the       *)
(* fields, and unnamed/part_004, which returns what JSON.parse gives.      *)
(* A JSON value is [t, v]: its type and, for an integer, its value; for a  *)
(* string, v = 0 is the empty string and v > 0 a date.                     *)
(***************************************************************************)
Missing == [t |-> "missing", v |-> 0]
JsonNull == [t |-> "null", v |-> 0]
JsonInt(n) == [t |-> "int", v |-> n]
JsonString(c) == [t |-> "string", v |-> c]
JsonFloat == [t |-> "float", v |-> 0]

\* the values the field lastProcessedHour can have in the file
HourValues == {Missing, JsonNull, JsonFloat, JsonString(1)} \cup {JsonInt(n) : n \in (-2)..HoursPerDay}
\* the values the field targetDate can have in the file
DateValues == {Missing, JsonString(0), JsonString(1), JsonInt(0)}


\* no file, a file that is not JSON, the JSON text null, a JSON object
RawFiles ==
    {[kind |-> k, targetDate |-> Missing, lastProcessedHour |-> Missing] :
        k \in {"absent", "garbage", "null"}}
      \cup {[kind |-> "object", targetDate |-> d, lastProcessedHour |-> h] :
               d \in DateValues, h \in HourValues}

LoadVersions == {"scripts", "part_004"}

\* { targetDate: '', lastProcessedHour: -1 }
FreshWatermark ==
    [object |-> TRUE, targetDate |-> JsonString(0), lastProcessedHour |-> JsonInt(-1)]

\* a value that || replaces by its right operand
Falsy(x) == x.t \in {"missing", "null"} \/ (x.t \in {"int", "string"} /\ x.v = 0)

\* Number.isInteger(x)
IsInteger(x) == x.t = "int"

\* scripts/send-mtek-reminders.js: readFile, JSON.parse, the two fields
\* checked; reading a field of null throws inside the try block
loadStateChecked(raw) ==
    IF raw.kind # "object"
    THEN FreshWatermark
    ELSE [object |-> TRUE,
          targetDate |-> IF Falsy(raw.targetDate) THEN JsonString(0) ELSE raw.targetDate,
          lastProcessedHour |-> IF IsInteger(raw.lastProcessedHour)
                                THEN raw.lastProcessedHour ELSE JsonInt(-1)]

\* unnamed/part_004: return JSON.parse(raw), the default on an exception
loadStateParsed(raw) ==
    CASE raw.kind \in {"absent", "garbage"} -> FreshWatermark
      [] raw.kind = "null" ->
           [object |-> FALSE, targetDate |-> Missing, lastProcessedHour |-> Missing]
      [] OTHER ->
           [object |-> TRUE, targetDate |-> raw.targetDate,
            lastProcessedHour |-> raw.lastProcessedHour]

InitLoad ==
    /\ IdleExcept("load")
    /\ ldRaw \in RawFiles
    /\ ldVersion \in LoadVersions
    /\ ldPc = "start"
    /\ ldResult = [object |-> FALSE, targetDate |-> Missing, lastProcessedHour |-> Missing]

\* main: const state = await loadState()
loadStateCall ==
    /\ ldPc = "start"
    /\ ldResult' = IF ldVersion = "scripts" THEN loadStateChecked(ldRaw)
                   ELSE loadStateParsed(ldRaw)
    /\ ldPc' = "loaded"
    /\ UNCHANGED <<ldRaw, ldVersion>>
    /\ UNCHANGED nonLoadVars

NextLoad == loadStateCall

SpecLoad == InitLoad /\ [][NextLoad]_vars

\* C26: loadState yields lastProcessedHour = -1 and an empty targetDate
\* whenever the state file is absent or cannot be parsed, and never yields
\* a watermark whose lastProcessedHour is missing or not an integer.
C26_LoadStateDefaults ==
    ldPc = "loaded" =>
        /\ ldRaw.kind \in {"absent", "garbage"} => ldResult = FreshWatermark
        /\ ldResult.object
        /\ ldResult.lastProcessedHour.t = "int"

(***************************************************************************)
(* The reminder script started on any state file that loadState accepts:   *)
(* a JSON object whose lastProcessedHour is an integer, whatever integer.   *)
(***************************************************************************)
AcceptedFiles ==
    {AbsentFile} \cup
    {saveState([targetDate |-> d, lastProcessedHour |-> h]) :
        d \in {NoDate, 1, 2}, h \in (-3)..(HoursPerDay + 1)}

InitAnyFile ==
    /\ IdleExcept("run")
    /\ now \in 0..MaxNow
    /\ stateFile \in AcceptedFiles
    /\ pc = "idle"
    /\ state = NoWatermark
    /\ loaded = NoWatermark
    /\ targetDate = NoDate
    /\ currentHour = -1
    /\ startHour = -1
    /\ hour = -1
    /\ pending = <<>>
    /\ sent = [r \in Reservations |-> 0]
    /\ processed = {}
    /\ activeDates = {}
    /\ runHours = <<>>
    /\ runFetches = 0
    /\ runWrites = 0
    /\ fileAtStart = AbsentFile
    /\ abortCause = "none"
    /\ lastDone = NoRun
    /\ lastAbort = NoAbort

\* the invocations of one hour: the clock stands still
NextAnyFile ==
    \/ mainStart
    \/ mainLoadStudios
    \/ processHourWindow
    \/ processReservation
    \/ mainSave
    \/ processExit

SpecAnyFile == InitAnyFile /\ [][NextAnyFile]_vars

\* C28: every hour bucket a reminder run processes is an integer hour in
\* 0..23, for any state-file contents that loadState accepts.
C28_HoursInRange ==
    \A i \in 1..Len(runHours) : runHours[i] \in 0..(HoursPerDay - 1)

(***************************************************************************)
(* process-mtek-class: main's loop over the reservations of one class      *)
(* session, in the three copies of the script.  Every external call goes   *)
(* through mtekRequest or airtableRequestTable, which throw on a response  *)
(* that is not ok; main has no try block, so a throw reaches               *)
(* main().catch, which logs the error and exits with code 1.               *)
(***************************************************************************)
\* process-mtek-class.js:332 (reservations fetched one by one by id),
\* process-mtek-class.js:780 (reservation records from the list endpoint),
\* unnamed/part_003:320 (ids taken from the class session)
ClassVersions == {"by-id", "by-record", "part_003"}

\* the external calls made for one reservation, in the order main makes them
ReservationCalls == <<"reservation", "user", "spot", "customer", "upsert">>

\* the calls made for a reservation: "by-record" has the reservation already;
\* customer is upserted only when the user has an email; without one "by-id"
\* and part_003 skip the reservation and "by-record" upserts it without a
\* customer link; part_003 also skips a cancelled or waitlisted reservation
CallsMade(version, active, hasEmail) ==
    LET fetch == IF version = "by-record" THEN <<"user", "spot">>
                 ELSE IF version = "part_003" /\ ~active THEN <<"reservation">>
                 ELSE <<"reservation", "user", "spot">>
        write == IF version = "part_003" /\ ~active THEN <<>>
                 ELSE IF hasEmail THEN <<"customer", "upsert">>
                 ELSE IF version = "by-record" THEN <<"upsert">>
                 ELSE <<>>
    IN  fetch \o write

InitClass ==
    /\ IdleExcept("cls")
    /\ clsVersion \in ClassVersions
    /\ clsN \in 0..MaxReservations
    /\ clsPc = "start"
    /\ clsI = 0
    /\ clsUpserted = {}
    /\ clsPayload = <<>>
    /\ clsFailed = {}
    /\ clsExit = NoExit

\* main().catch: console.error, process.exit(1)
classCatch ==
    /\ clsPc' = "exit"
    /\ clsExit' = 1

\* main up to the loop: the payload and the reservations of the session
classStart ==
    /\ clsPc = "start"
    /\ \E ok \in BOOLEAN :
         IF ok
         THEN /\ clsPc' = "loop"
              /\ UNCHANGED clsExit
         ELSE classCatch
    /\ UNCHANGED <<clsVersion, clsN, clsI, clsUpserted, clsPayload, clsFailed>>
    /\ UNCHANGED nonClsVars

\* one pass of for (const r of reservations): the calls of CallsMade in
\* order; the first that fails throws out of main
classReservation ==
    /\ clsPc = "loop"
    /\ clsI < clsN
    /\ \E active \in BOOLEAN, hasEmail \in BOOLEAN :
         LET r == clsI + 1
             calls == CallsMade(clsVersion, active, hasEmail)
         IN  \E failAt \in 0..Len(calls) :
               IF failAt = 0
               THEN /\ clsI' = r
                    /\ clsUpserted' =
                          IF \E k \in 1..Len(calls) : calls[k] = "upsert"
                          THEN clsUpserted \cup {r} ELSE clsUpserted
                    /\ clsPayload' =
                          IF \E k \in 1..Len(calls) : calls[k] = "customer"
                          THEN Append(clsPayload, r) ELSE clsPayload
                    /\ UNCHANGED <<clsFailed, clsPc, clsExit>>
               ELSE /\ clsFailed' = clsFailed \cup {r}
                    /\ classCatch
                    /\ UNCHANGED <<clsI, clsUpserted, clsPayload>>
    /\ UNCHANGED <<clsVersion, clsN>>
    /\ UNCHANGED nonClsVars

\* after the loop: updateClassLastUpdate, sendMakeWebhook
classFinish ==
    /\ clsPc = "loop"
    /\ clsI = clsN
    /\ \E ok \in BOOLEAN :
         IF ok
         THEN /\ clsPc' = "done"
              /\ UNCHANGED clsExit
         ELSE classCatch
    /\ UNCHANGED <<clsVersion, clsN, clsI, clsUpserted, clsPayload, clsFailed>>
    /\ UNCHANGED nonClsVars

NextClass ==
    \/ classStart
    \/ classReservation
    \/ classFinish

SpecClass == InitClass /\ [][NextClass]_vars

\* C25: when an external call made for one reservation fails, the failure is
\* logged and the run goes on with the next reservation: it is not aborted.
C25_FailureContinues ==
    clsFailed # {} => (clsPc # "exit" /\ clsExit = NoExit)

(***************************************************************************)
(* pickClosestSessionId.  A session is [id, start_datetime, datetime]: of  *)
(* the five attribute keys the code reads, the first and the third.  An    *)
(* attribute is absent (or null or ""), a text that new Date cannot parse, *)
(* or an instant 0..MaxTime.  The id 0 is a missing or null id.            *)
(***************************************************************************)
AbsentAttr == -1
BadDate == -2
NoSessionId == 0
\* bestDelta = Infinity
InfiniteDelta == -1

StartValues == {AbsentAttr, BadDate} \cup (0..MaxTime)

\* a session but for its id: whether it has one, and the two attributes
SessionShapes ==
    {[hasId |-> h, start_datetime |-> a, datetime |-> AbsentAttr] :
        h \in BOOLEAN, a \in StartValues}
      \cup {[hasId |-> h, start_datetime |-> a, datetime |-> 0] :
               h \in BOOLEAN, a \in {AbsentAttr, BadDate}}

\* the session at place i of the list has id i or none
SessionItem(i, shape) ==
    [id |-> IF shape.hasId THEN i ELSE NoSessionId,
     start_datetime |-> shape.start_datetime,
     datetime |-> shape.datetime]

\* a.start_datetime || a.startDatetime || a.datetime || ... || null
getSessionUtcIso(item) ==
    IF item.start_datetime # AbsentAttr THEN item.start_datetime ELSE item.datetime

\* Number.isFinite(new Date(dt).getTime())
IsFiniteDate(dt) == dt # BadDate

\* Math.abs(ms - targetMs)
AbsDelta(ms, targetMs) == IF ms >= targetMs THEN ms - targetMs ELSE targetMs - ms

\* if (delta < bestDelta), taking the later session on a tie
Closer_OrEqual(delta, bestDelta) == bestDelta = InfiniteDelta \/ delta <= bestDelta
\* if (delta < bestDelta)
Closer(delta, bestDelta) == bestDelta = InfiniteDelta \/ delta < bestDelta

\* the for loop from session i on; exact and best are indices, 0 for null
RECURSIVE pickLoop(_, _, _, _, _)
pickLoop(sessions, targetMs, i, best, bestDelta) ==
    IF i > Len(sessions)
    THEN [exact |-> 0, best |-> best]
    ELSE LET dt == getSessionUtcIso(sessions[i])
         IN  IF dt = AbsentAttr \/ ~IsFiniteDate(dt)
             THEN pickLoop(sessions, targetMs, i + 1, best, bestDelta)
             ELSE LET delta == AbsDelta(dt, targetMs)
                  IN  IF delta = 0
                      THEN [exact |-> i, best |-> best]
                      ELSE IF Closer(delta, bestDelta)
                           THEN pickLoop(sessions, targetMs, i + 1, i, delta)
                           ELSE pickLoop(sessions, targetMs, i + 1, best, bestDelta)

\* chosen = exact || best; return chosen?.id ?? null
pickClosestSessionId(sessions, targetUtcIso) ==
    IF Len(sessions) = 0
    THEN [threw |-> FALSE, id |-> NoSessionId]
    ELSE IF ~IsFiniteDate(targetUtcIso)
    THEN [threw |-> TRUE, id |-> NoSessionId]
    ELSE LET r == pickLoop(sessions, targetUtcIso, 1, 0, InfiniteDelta)
             chosen == IF r.exact # 0 THEN r.exact ELSE r.best
         IN  [threw |-> FALSE,
              id |-> IF chosen = 0 THEN NoSessionId ELSE sessions[chosen].id]

InitPick ==
    /\ IdleExcept("pick")
    /\ pkSessions = <<>>
    /\ pkTarget \in {BadDate} \cup (0..MaxTime)
    /\ pkPc = "fetch"
    /\ pkResult = [threw |-> FALSE, id |-> NoSessionId]

\* mtekListClassSessionsInWindow: the answer of MTEK holds one more session
pickFetchSession ==
    /\ pkPc = "fetch"
    /\ Len(pkSessions) < MaxSessions
    /\ \E shape \in SessionShapes :
         pkSessions' = Append(pkSessions, SessionItem(Len(pkSessions) + 1, shape))
    /\ UNCHANGED <<pkTarget, pkPc, pkResult>>
    /\ UNCHANGED nonPickVars

\* main: const sessionId = pickClosestSessionId({ sessions, targetUtcIso })
pickCall ==
    /\ pkPc = "fetch"
    /\ pkResult' = pickClosestSessionId(pkSessions, pkTarget)
    /\ pkPc' = "returned"
    /\ UNCHANGED <<pkSessions, pkTarget>>
    /\ UNCHANGED nonPickVars

NextPick ==
    \/ pickFetchSession
    \/ pickCall

SpecPick == InitPick /\ [][NextPick]_vars

\* the sessions whose start time is present and parses
Parseable == {i \in 1..Len(pkSessions) :
                 LET dt == getSessionUtcIso(pkSessions[i])
                 IN  dt # AbsentAttr /\ IsFiniteDate(dt)}
StartingAtTarget == {i \in Parseable : getSessionUtcIso(pkSessions[i]) = pkTarget}
\* the first session in list order among those nearest to the target
Nearest ==
    CHOOSE i \in Parseable :
        \A j \in Parseable :
            LET di == AbsDelta(getSessionUtcIso(pkSessions[i]), pkTarget)
                dj == AbsDelta(getSessionUtcIso(pkSessions[j]), pkTarget)
            IN  di < dj \/ (di = dj /\ i <= j)

\* C27: pickClosestSessionId returns the id of a session that starts at the
\* target when there is one, otherwise the id of the session nearest to the
\* target among those whose start time parses, the earliest in list order on
\* a tie, and null when no start time parses.
C27_ClosestSession ==
    (pkPc = "returned" /\ IsFiniteDate(pkTarget)) =>
        /\ ~pkResult.threw
        /\ StartingAtTarget # {} =>
               \E i \in StartingAtTarget : pkResult.id = pkSessions[i].id
        /\ (StartingAtTarget = {} /\ Parseable # {}) =>
               pkResult.id = pkSessions[Nearest].id
        /\ Parseable = {} => pkResult.id = NoSessionId

\* two sessions as far from the target, one before and one after it, none at
\* the target: the first of the two is returned
C27_Witness ==
    /\ pkPc = "returned"
    /\ Len(pkSessions) = 3
    /\ pkTarget = 1
    /\ getSessionUtcIso(pkSessions[1]) = BadDate
    /\ getSessionUtcIso(pkSessions[2]) = 2
    /\ getSessionUtcIso(pkSessions[3]) = 0
    /\ pkSessions[2].id = 2
    /\ pkSessions[3].id = 3
    /\ pkResult.id = 2

(***************************************************************************)
(* resolve-class-id: main's loop over the records.  The Class ID field of  *)
(* a record is undefined (the API leaves out an empty field), null, the    *)
(* empty text, a text of blanks, another text, or a number.                *)
(***************************************************************************)
\* the class session id MTEK answers with
FoundClassId == 9

ClassIdValues ==
    {[kind |-> k, n |-> 0] : k \in {"undefined", "null", "empty", "blank"}}
      \cup {[kind |-> "number", n |-> n] : n \in {0, 7}}
      \cup {[kind |-> "text", n |-> 7]}

ResolveRecords == [hasRoomAndDate : BOOLEAN, classId : ClassIdValues]

\* String(x).trim()
TrimmedIsEmpty(x) == x.kind \in {"empty", "blank"}

\* if (existingClassId), as the second copy of the script has it
HasClassId_Truthy(x) ==
    \/ x.kind = "number" /\ x.n # 0
    \/ x.kind \in {"blank", "text"}
\* existingClassId !== undefined && existingClassId !== null &&
\* String(existingClassId).trim() !== ""
HasClassId(x) ==
    /\ x.kind # "undefined"
    /\ x.kind # "null"
    /\ ~TrimmedIsEmpty(x)

\* what the work on one record that is not skipped comes to
ResolveOutcomes == {"no location", "no session", "error", "updated"}

InitResolve ==
    /\ IdleExcept("res")
    /\ rsRecords \in UNION {[1..n -> ResolveRecords] : n \in 0..MaxRecords}
    /\ rsTable = [i \in DOMAIN rsRecords |-> rsRecords[i].classId]
    /\ rsI = 0
    /\ rsPc = "loop"
    /\ rsPatched = {}
    /\ rsCount = [updated |-> 0, skipped |-> 0, notFound |-> 0, errors |-> 0]

\* one pass of for (const r of records)
resolveRecord ==
    /\ rsPc = "loop"
    /\ rsI < Len(rsRecords)
    /\ LET i == rsI + 1
           r == rsRecords[i]
       IN  /\ rsI' = i
           /\ IF ~r.hasRoomAndDate \/ HasClassId(r.classId)
              THEN /\ rsCount' = [rsCount EXCEPT !.skipped = @ + 1]
                   /\ UNCHANGED <<rsTable, rsPatched>>
              ELSE \E res \in ResolveOutcomes :
                     CASE res = "updated" ->
                            /\ rsTable' = [rsTable EXCEPT
                                             ![i] = [kind |-> "number", n |-> FoundClassId]]
                            /\ rsPatched' = rsPatched \cup {i}
                            /\ rsCount' = [rsCount EXCEPT !.updated = @ + 1]
                       [] res = "error" ->
                            /\ rsCount' = [rsCount EXCEPT !.errors = @ + 1]
                            /\ UNCHANGED <<rsTable, rsPatched>>
                       [] OTHER ->
                            /\ rsCount' = [rsCount EXCEPT !.notFound = @ + 1]
                            /\ UNCHANGED <<rsTable, rsPatched>>
    /\ UNCHANGED <<rsRecords, rsPc>>
    /\ UNCHANGED nonResVars

\* console.log("Done"), the summary, process.exitCode
resolveDone ==
    /\ rsPc = "loop"
    /\ rsI = Len(rsRecords)
    /\ rsPc' = "done"
    /\ UNCHANGED <<rsRecords, rsTable, rsI, rsPatched, rsCount>>
    /\ UNCHANGED nonResVars

NextResolve ==
    \/ resolveRecord
    \/ resolveDone

SpecResolve == InitResolve /\ [][NextResolve]_vars

\* a Class ID that is a value: a number, or a text that is not blank
NonEmptyClassId(x) == x.kind \in {"number", "text"}

\* C30: a record whose Class ID is already non-empty is never PATCHed: its
\* Class ID stays what it was, and the record is counted as skipped.
C30_ExistingClassIdKept ==
    /\ \A i \in 1..Len(rsRecords) :
          NonEmptyClassId(rsRecords[i].classId) =>
              /\ i \notin rsPatched
              /\ rsTable[i] = rsRecords[i].classId
    /\ rsCount.skipped =
          Cardinality({i \in 1..rsI : \/ ~rsRecords[i].hasRoomAndDate
                                       \/ NonEmptyClassId(rsRecords[i].classId)})

\* a finished run that skipped a record with Class ID 0 and one with Class
\* ID 7, both with Room and Date
C30_Witness ==
    /\ rsPc = "done"
    /\ Len(rsRecords) = 2
    /\ rsRecords[1] = [hasRoomAndDate |-> TRUE, classId |-> [kind |-> "number", n |-> 0]]
    /\ rsRecords[2] = [hasRoomAndDate |-> TRUE, classId |-> [kind |-> "number", n |-> 7]]
    /\ rsCount.skipped = 2
    /\ rsPatched = {}

====
